---- MODULE Spec2Model ----
(***************************************************************************)
(* Model of the session / dead-air-removal engine of hyperedit            *)
(* (scripts/local-ffmpeg-server.js).                                      *)
(*                                                                        *)
(* Times are integers counted in ticks of 0.05 s, so that the default     *)
(* minSegmentDuration of 0.1 s is 2 ticks and gaps shorter than, equal to *)
(* and longer than it can all be told apart.  An interval {start, end}    *)
(* is the record [start |-> a, end |-> b] and stands for [a, b).          *)
(***************************************************************************)
EXTENDS Integers, Sequences, FiniteSets, TLC

\* ------------------------------------------------------------------ bounds
\* Largest total duration (ticks) fed to calculateKeepSegments.
MaxT == 5
\* Longest silence list fed to calculateKeepSegments.
MaxSilences == 2

\* calculateKeepSegments' default minSegmentDuration = 0.1 s, in ticks.
MinSegmentDuration == 2

\* Longest media file (ticks) a client uploads or an edit produces.
MaxDur == 7
\* Most silence periods one detectSilence run reports in the server model.
MaxDetected == 1
\* Cap on session.editCount (mutating requests are not started beyond it).
MaxEdits == 1
\* Longest track list and clip list of a saved project.
MaxTracks == 2
MaxClips == 2
\* Most clips on the timeline, latest start of a clip, farthest drag and
\* longest asset (ticks) in the model of the timeline.
MaxTlClips == 1
MaxStart == 2
MaxDelta == 2
MaxAssetDur == 3
\* Most clips on the timeline whose edits are saved.
MaxSavedClips == 1
\* Longest clip list the library operations are applied to.
MaxListed == 2
\* Requests for a file served at the same time.
MaxServe == 2
\* Most lines of ffmpeg output parsed by detectSilence, latest time on a line.
MaxLines == 3
MaxMarkerTime == 1
\* Most keywords extracted from one transcript.
MaxKeywords == 3
\* Largest maxAttempts passed to pollForResult besides the default.
MaxAttemptsArg == 2
\* Longest clip list whose filter graph is compiled.
MaxGraphClips == 2
\* Longest clip list handed to the renderer, and the latest start of an
\* overlay clip in it (whole seconds).
MaxRenderClips == 2
MaxRenderStart == 3
\* Handlers running at the same time in the model of the temporary files.
MaxJobs == 2
\* The sweep's age limit of 2 hours; session ages are counted in whole
\* periods of 2 hours.
IdleThreshold == 1

\* The session ids randomUUID() returns, ids it never returns, and the
\* request slots of the server (requests in flight at one time).
SessionIds == {"s1"}
UnknownIds == {"s0"}
Requests == {"r1", "r2"}

VARIABLES
  \* --- calculateKeepSegments applied to enumerated inputs
  kpc,            \* "input" before the call, "done" after it
  kSilence,       \* argument silencePeriods
  kTotal,         \* argument totalDuration
  kKeep,          \* the returned keepSegments
  \* --- the server
  requireDefined, \* whether the module scope has a CommonJS require binding
  sessions,       \* keys of the sessions Map
  allocated,      \* ids randomUUID() has returned so far
  age,            \* Date.now() - session.createdAt, in periods of 2 hours
  editCount,      \* session.editCount
  dirs,           \* sessions whose directory session.dir exists on disk
  files,          \* files[s]: names of the files inside session.dir
  content,        \* content[s]: duration of the media in current.mp4
  uploaded,       \* sessions whose current.mp4 has been put in place once
  req,            \* req[r]: the request in slot r, its handler's position and locals
  \* --- where the handlers put their temporary files
  jobs,           \* jobs[j]: the handler running in slot j, its session and its file
  \* --- saving and loading a project
  proj,           \* session.project, the last PUT body, the last GET reply
  \* --- the timeline of the editor
  tl,             \* the editor's assets and clips, the gesture in progress
  \* --- rendering a project
  rend,           \* the project rendered, the filter graph, ffmpeg, the reply
  \* --- serving thumbnails, assets and renders
  serve,          \* the request being served, the file on disk, what was written
  \* --- fetching a GIF for each keyword
  gifs,           \* the keywords, the loop index, gifAssets, session.assets
  \* --- polling for the result of a job
  poll,           \* the attempt, the status checks made, how the call ended
  \* --- the debounced save of the editor
  sav,            \* the pending timer and the project its callback will send
  \* --- detectSilence applied to enumerated outputs of ffmpeg
  det             \* the marker lines, the intervals returned

keepVars == <<kpc, kSilence, kTotal, kKeep>>
serverVars == <<requireDefined, sessions, allocated, age, editCount,
                dirs, files, content, uploaded, req>>
\* What the session server's handlers of the specification Spec leave alone.
apartVars == <<keepVars, jobs, proj, tl, rend, serve, gifs, poll, sav, det>>
vars == <<kpc, kSilence, kTotal, kKeep, requireDefined, sessions, allocated,
          age, editCount, dirs, files, content, uploaded, req, jobs, proj, tl, rend,
          serve, gifs, poll, sav, det>>

\* ------------------------------------------------------ pure functions

Interval(a, b) == [start |-> a, end |-> b]

\* The lists of at most n elements of S.
RECURSIVE SeqsUpTo(_, _)
SeqsUpTo(S, n) ==
  IF n = 0 THEN { << >> }
  ELSE LET shorter == SeqsUpTo(S, n - 1)
       IN  shorter \cup { Append(q, x) : q \in { p \in shorter : Len(p) = n - 1 }, x \in S }

\* The for-loop of calculateKeepSegments, from element i on, with the
\* loop-carried lastEnd and the keepSegments pushed so far.
RECURSIVE KeepLoop(_, _, _, _, _)
KeepLoop(silencePeriods, i, lastEnd, keepSegments, minSegmentDuration) ==
  IF i > Len(silencePeriods)
  THEN [lastEnd |-> lastEnd, keepSegments |-> keepSegments]
  ELSE LET silence == silencePeriods[i]
       IN  KeepLoop(silencePeriods, i + 1, silence.end,
                    IF silence.start > lastEnd + minSegmentDuration
                    THEN Append(keepSegments, Interval(lastEnd, silence.start))
                    ELSE keepSegments,
                    minSegmentDuration)

\* Mutant: lastEnd is never advanced past a silence period.
RECURSIVE KeepLoop_staleLastEnd(_, _, _, _, _)
KeepLoop_staleLastEnd(silencePeriods, i, lastEnd, keepSegments, minSegmentDuration) ==
  IF i > Len(silencePeriods)
  THEN [lastEnd |-> lastEnd, keepSegments |-> keepSegments]
  ELSE LET silence == silencePeriods[i]
       IN  KeepLoop_staleLastEnd(silencePeriods, i + 1, lastEnd,
                    IF silence.start > lastEnd + minSegmentDuration
                    THEN Append(keepSegments, Interval(lastEnd, silence.start))
                    ELSE keepSegments,
                    minSegmentDuration)

\* Mutant: the minimum-length floor is left out of both comparisons.
RECURSIVE KeepLoop_noFloor(_, _, _, _)
KeepLoop_noFloor(silencePeriods, i, lastEnd, keepSegments) ==
  IF i > Len(silencePeriods)
  THEN [lastEnd |-> lastEnd, keepSegments |-> keepSegments]
  ELSE LET silence == silencePeriods[i]
       IN  KeepLoop_noFloor(silencePeriods, i + 1, silence.end,
                    IF silence.start > lastEnd
                    THEN Append(keepSegments, Interval(lastEnd, silence.start))
                    ELSE keepSegments)

calculateKeepSegments_staleLastEnd(silencePeriods, totalDuration, minSegmentDuration) ==
  IF Len(silencePeriods) = 0
  THEN << Interval(0, totalDuration) >>
  ELSE LET loop == KeepLoop_staleLastEnd(silencePeriods, 1, 0, << >>, minSegmentDuration)
       IN  IF loop.lastEnd < totalDuration - minSegmentDuration
           THEN Append(loop.keepSegments, Interval(loop.lastEnd, totalDuration))
           ELSE loop.keepSegments

calculateKeepSegments_noFloor(silencePeriods, totalDuration, minSegmentDuration) ==
  IF Len(silencePeriods) = 0
  THEN << Interval(0, totalDuration) >>
  ELSE LET loop == KeepLoop_noFloor(silencePeriods, 1, 0, << >>)
       IN  IF loop.lastEnd < totalDuration
           THEN Append(loop.keepSegments, Interval(loop.lastEnd, totalDuration))
           ELSE loop.keepSegments

\* Mutant: the early return for an empty silence list is missing.
calculateKeepSegments_noPassThrough(silencePeriods, totalDuration, minSegmentDuration) ==
  LET loop == KeepLoop(silencePeriods, 1, 0, << >>, minSegmentDuration)
  IN  IF loop.lastEnd < totalDuration - minSegmentDuration
      THEN Append(loop.keepSegments, Interval(loop.lastEnd, totalDuration))
      ELSE loop.keepSegments

calculateKeepSegments(silencePeriods, totalDuration, minSegmentDuration) ==
  IF Len(silencePeriods) = 0
  THEN << Interval(0, totalDuration) >>
  ELSE LET loop == KeepLoop(silencePeriods, 1, 0, << >>, minSegmentDuration)
       IN  IF loop.lastEnd < totalDuration - minSegmentDuration
           THEN Append(loop.keepSegments, Interval(loop.lastEnd, totalDuration))
           ELSE loop.keepSegments

\* ------------------------------------------------------------- the server

\* A file name inside a session directory: current.mp4, or a temporary file
\* named after the request that made it (output-<t>.mp4, deadair-output-<t>.mp4,
\* concat-<t>.txt, segment-<t>-<i>.mp4; <t> is the request's Date.now()).
Current == <<"current", "-", 0>>
OutputOf(r) == <<"output", r, 0>>
DeadAirOutputOf(r) == <<"deadair-output", r, 0>>
ConcatListOf(r) == <<"concat", r, 0>>
SegmentOf(r, i) == <<"segment", r, i>>
\* Any temporary file a finished request left behind, once its slot is free.
LeftBehind == <<"left-behind", "-", 0>>

NoResponse == [status |-> 0, error |-> "", sessionId |-> "", body |-> {}]
Reply(status, sessionId, body) ==
  [status |-> status, error |-> "", sessionId |-> sessionId, body |-> body]
ErrorReply(status, error) ==
  [status |-> status, error |-> error, sessionId |-> "", body |-> {}]

\* A field of a JSON response body (a set of <<name, value>> pairs).
HasField(body, name) == \E p \in body : p[1] = name
Field(body, name) == (CHOOSE p \in body : p[1] = name)[2]

IdleRequest ==
  [method |-> "", id |-> "", action |-> "", handler |-> "", pc |-> "idle",
   totalDuration |-> 0, keepCount |-> 0, totalKeptDuration |-> 0, i |-> 0,
   inputOpened |-> FALSE, outDuration |-> 0, response |-> NoResponse]

\* A request as the router received it, dispatched to a handler.
NewRequest(method, id, action, handler) ==
  [IdleRequest EXCEPT !.method = method, !.id = id, !.action = action,
                      !.handler = handler]

\* The request in slot r is answered: res.end(...).
Answered(q, response) ==
  [NewRequest(q.method, q.id, q.action, q.handler) EXCEPT
     !.pc = "done", !.response = response]

\* No reply is waiting to be delivered: the server takes its next step once
\* the reply it has just written is out.
Delivered == \A r \in Requests : req[r].pc # "done"

\* Durations (ticks) of the media a client uploads and of the output of a
\* client's edit command.
MediaDurations == {MaxDur}

\* No call of calculateKeepSegments is being followed.
KeepStart ==
  /\ kpc = "idle"
  /\ kSilence = << >>
  /\ kTotal = 0
  /\ kKeep = << >>

\* No handler is running in any job slot.
IdleJob == [kind |-> "", session |-> "", path |-> [dir |-> << >>, name |-> <<"", "", 0>>]]
JobsStart == jobs = [j \in 1..MaxJobs |-> IdleJob]

\* The value of an optional field that is not set (transform?: ...).
Undefined == -1

\* The project a new session holds (createSession, lines 55-69): the tracks
\* V1, V2, A1, no clip, 1920 x 1080 at 30 fps.  Track and clip ids are numbers
\* here, and a transform is its opacity in percent.
DefaultTracks ==
  << [id |-> 1, type |-> "video", name |-> 1, order |-> 0],
     [id |-> 2, type |-> "video", name |-> 2, order |-> 1],
     [id |-> 3, type |-> "audio", name |-> 3, order |-> 2] >>
DefaultSettings == [width |-> 1920, height |-> 1080, fps |-> 30]
DefaultProject ==
  [tracks |-> DefaultTracks, clips |-> << >>, settings |-> DefaultSettings]

\* No project has been saved or loaded.
ProjStart ==
  proj = [pc |-> "start", project |-> DefaultProject,
          saved |-> DefaultProject, loaded |-> DefaultProject]

\* The assets of the library: a video whose probe failed (duration 0), an
\* audio file shorter than 0.1 s and a video of MaxAssetDur ticks.
AssetIds == {1, 2, 3}
AssetDuration(assetId) ==
  CASE assetId = 1 -> 0 [] assetId = 2 -> 1 [] OTHER -> MaxAssetDur
AssetType(assetId) == IF assetId = 2 THEN "audio" ELSE "video"

\* No gesture is in progress on the timeline; called tells whether the
\* gesture in progress has called onMove or onResize yet.
NoDrag ==
  [mode |-> "none", clipId |-> 0, initialStart |-> 0,
   initialInPoint |-> 0, initialOutPoint |-> 0, called |-> FALSE]

\* The editor with the three assets uploaded and no clip on the timeline.
TimelineStart ==
  tl = [assets |-> AssetIds, clips |-> << >>,
        tracks |-> DefaultTracks, settings |-> DefaultSettings,
        serverAssets |-> AssetIds, serverClips |-> << >>,
        drag |-> NoDrag]

\* session.assets of the session rendered: a long video, a short video and
\* an audio file (durations in whole seconds).
RenderAssets ==
  (1 :> [type |-> "video", duration |-> 10]) @@
  (2 :> [type |-> "video", duration |-> 2]) @@
  (3 :> [type |-> "audio", duration |-> 4])

\* clip.transform with none of its fields set; scale and opacity are in
\* percent, x and y in pixels.
NoTransform ==
  [x |-> Undefined, y |-> Undefined, scale |-> Undefined, opacity |-> Undefined]

\* The filter graph before anything is pushed.
NoGraph == [inputs |-> << >>, stages |-> << >>, maps |-> << >>]

\* No reply has been written.
NoRenderReply == [status |-> 0, error |-> ""]

\* No render has been requested: the project has no clip.
IdleRender ==
  [pc |-> "idle", clips |-> << >>, isPreview |-> FALSE,
   layers |-> << >>, graph |-> NoGraph, totalDuration |-> 0,
   encoders |-> 0, renders |-> {}, response |-> NoRenderReply]
RenderStart == rend = IdleRender

\* No request for a file is being served.
IdleServe ==
  [pc |-> "idle", handler |-> "", onDisk |-> FALSE, status |-> 0, error |-> "",
   ended |-> 0]
ServeStart == serve = [n \in 1..MaxServe |-> IdleServe]

\* handleTranscribeAndExtract has not been called.
IdleGifs ==
  [pc |-> "idle", keywords |-> << >>, i |-> 1, gifAssets |-> << >>,
   assets |-> {}, assetFiles |-> {}, status |-> 0]
GifsStart == gifs = IdleGifs

\* No save is pending.
IdleSave == [armed |-> FALSE, body |-> DefaultProject]
SaveStart == sav = IdleSave

\* detectSilence has not been called.
IdleDetect == [pc |-> "input", lines |-> << >>, silences |-> << >>]
DetectStart == det = IdleDetect

\* pollForResult has not been called.
IdlePoll ==
  [pc |-> "idle", maxAttempts |-> 0, attempt |-> 0, checks |-> 0, error |-> ""]
PollStart == poll = IdlePoll

\* State of the server process right after start-up (lines 29-42).
ServerStart ==
  /\ sessions = {}
  /\ allocated = {}
  /\ age = [s \in SessionIds |-> 0]
  /\ editCount = [s \in SessionIds |-> 0]
  /\ dirs = {}
  /\ files = [s \in SessionIds |-> {}]
  /\ content = [s \in SessionIds |-> 0]
  /\ uploaded = {}
  /\ req = [r \in Requests |-> IdleRequest]

\* getSession(sessionId): the session, or undefined.
getSession(sessionId) == sessionId \in sessions

\* The router of the http server: the handler a request is dispatched to,
\* in the order of the if / else-if chain (lines 2698-2774).
Route(method, sessionId, action) ==
  IF method = "POST" /\ sessionId = "create" THEN "handleSessionCreate"
  ELSE IF method = "POST" /\ sessionId = "upload" THEN "handleSessionUpload"
  ELSE IF method = "GET" /\ action = "stream" THEN "handleSessionStream"
  ELSE IF method = "GET" /\ action = "info" THEN "handleSessionInfo"
  ELSE IF method = "GET" /\ action = "download" THEN "handleSessionDownload"
  ELSE IF method = "POST" /\ action = "process" THEN "handleSessionProcess"
  ELSE IF method = "POST" /\ action = "remove-dead-air" THEN "handleSessionRemoveDeadAir"
  ELSE IF method = "POST" /\ action = "chapters" THEN "handleSessionChapters"
  ELSE IF method = "DELETE" /\ action = "" THEN "handleSessionDelete"
  ELSE IF method = "POST" /\ action = "assets" THEN "handleAssetUpload"
  ELSE IF method = "GET" /\ action = "assets" THEN "handleAssetList"
  ELSE IF action = "assets/a" THEN
         IF method = "DELETE" THEN "handleAssetDelete" ELSE "assetEndpointNotFound"
  ELSE IF action = "assets/a/thumbnail" THEN
         IF method = "GET" THEN "handleAssetThumbnail" ELSE "assetEndpointNotFound"
  ELSE IF action = "assets/a/stream" THEN
         IF method = "GET" THEN "handleAssetStream" ELSE "assetEndpointNotFound"
  ELSE IF method = "GET" /\ action = "project" THEN "handleProjectGet"
  ELSE IF method = "PUT" /\ action = "project" THEN "handleProjectSave"
  ELSE IF method = "POST" /\ action = "render" THEN "handleProjectRender"
  ELSE IF method = "POST" /\ action = "create-gif" THEN "handleCreateGif"
  ELSE IF method = "POST" /\ action = "transcribe" THEN "handleTranscribe"
  ELSE IF method = "POST" /\ action = "transcribe-and-extract"
       THEN "handleTranscribeAndExtract"
  ELSE IF method = "POST" /\ action = "render-motion-graphic"
       THEN "handleRenderMotionGraphic"
  ELSE IF action = "renders/preview" THEN
         IF method = "GET" THEN "handleRenderDownload" ELSE "renderEndpointNotFound"
  ELSE "sessionEndpointNotFound"

Methods == {"GET", "POST", "PUT", "DELETE"}
\* The path segment after /session/ of a request for a session: an id that
\* randomUUID() has returned or may return, or one it never returns.
PathIds == SessionIds \cup UnknownIds
\* What follows /session/create or /session/upload in a POST: nothing, or the
\* name of a session endpoint.
ReservedPaths == {"", "process"}
\* The rest of the path, one per endpoint of the router.
PathActions ==
  {"", "stream", "info", "download", "process", "remove-dead-air", "chapters",
   "assets", "assets/a", "assets/a/thumbnail", "assets/a/stream", "project",
   "render", "create-gif", "transcribe", "transcribe-and-extract",
   "render-motion-graphic", "renders/preview"}

\* createSession(originalName), its effect on the table and the disk.
\* (The project state and asset table it also creates are not read by the
\* handlers modelled here.)
createSession(sessionId) ==
  /\ sessionId \in SessionIds \ allocated
  /\ allocated' = allocated \cup {sessionId}
  /\ dirs' = dirs \cup {sessionId}
  /\ age' = [age EXCEPT ![sessionId] = 0]
  /\ editCount' = [editCount EXCEPT ![sessionId] = 0]
  /\ sessions' = sessions \cup {sessionId}

\* What cleanupSession(id) leaves of the table and the disk, for each of the
\* ids in `ids` in turn.  `require` is not defined in the scope of an ES
\* module (the file uses import declarations): its call at line 95 then throws
\* a ReferenceError, which the catch at line 99 logs, before rmSync and
\* sessions.delete run.  Where a bundler or loader supplies require, the
\* directory subtree is removed and the id forgotten.
CleanedUp(ids) ==
  LET gone == IF requireDefined THEN ids \cap sessions ELSE {}
  IN  [sessions |-> sessions \ gone,
       dirs |-> dirs \ gone,
       files |-> [s \in SessionIds |-> IF s \in gone THEN {} ELSE files[s]],
       content |-> [s \in SessionIds |-> IF s \in gone THEN 0 ELSE content[s]]]

cleanupSession(ids) ==
  LET after == CleanedUp(ids)
  IN  /\ sessions' = after.sessions
      /\ dirs' = after.dirs
      /\ files' = after.files
      /\ content' = after.content
      /\ age' = [s \in SessionIds |-> IF s \in after.sessions THEN age[s] ELSE 0]

\* The slot r is free again; what its request left in its session directory
\* stays there under a name no later request uses.
Release(r) ==
  /\ req[r].pc = "done"
  /\ req' = [req EXCEPT ![r] = IdleRequest]
  /\ files' = [s \in SessionIds |->
                 { f \in files[s] : f[2] # r } \cup
                 (IF \E f \in files[s] : f[2] = r THEN {LeftBehind} ELSE {})]
  /\ UNCHANGED <<apartVars, requireDefined, sessions, allocated, age, editCount,
                 dirs, content, uploaded>>

\* POST /session/create: handleSessionCreate.
handleSessionCreate(r, action) ==
  /\ req[r].pc = "idle" /\ Delivered
  /\ Route("POST", "create", action) = "handleSessionCreate"
  /\ \E sessionId \in SessionIds :
       /\ createSession(sessionId)
       /\ req' = [req EXCEPT ![r] =
            Answered(NewRequest("POST", "create", action, "handleSessionCreate"),
                     Reply(200, sessionId, {}))]
  /\ UNCHANGED <<apartVars, requireDefined, files, content, uploaded>>

\* POST /session/upload: handleSessionUpload up to the rename of the uploaded
\* file (form.parse, the missing-file reply, createSession).
handleSessionUpload(r, action) ==
  /\ req[r].pc = "idle" /\ Delivered
  /\ Route("POST", "upload", action) = "handleSessionUpload"
  /\ LET q == NewRequest("POST", "upload", action, "handleSessionUpload")
     IN  \/ /\ req' = [req EXCEPT ![r] = Answered(q, ErrorReply(400, "Missing video file"))]
            /\ UNCHANGED <<sessions, allocated, age, editCount, dirs>>
         \/ \E sessionId \in SessionIds, duration \in MediaDurations :
              /\ createSession(sessionId)
              /\ req' = [req EXCEPT ![r] =
                   [q EXCEPT !.id = sessionId, !.pc = "rename", !.outDuration = duration]]
  /\ UNCHANGED <<apartVars, requireDefined, files, content, uploaded>>

\* handleSessionUpload, from the end of rename(videoFile.filepath,
\* session.currentVideo) on: getVideoDuration, stat, the reply.
UploadRenamed(r) ==
  /\ req[r].handler = "handleSessionUpload" /\ req[r].pc = "rename" /\ Delivered
  /\ LET s == req[r].id
     IN  IF s \in dirs
         THEN /\ files' = [files EXCEPT ![s] = @ \cup {Current}]
              /\ content' = [content EXCEPT ![s] = req[r].outDuration]
              /\ uploaded' = uploaded \cup {s}
              /\ req' = [req EXCEPT ![r] =
                   Answered(@, Reply(200, s, {<<"duration", req[r].outDuration>>}))]
         ELSE /\ req' = [req EXCEPT ![r] = Answered(@, ErrorReply(500, "ENOENT"))]
              /\ UNCHANGED <<files, content, uploaded>>
  /\ UNCHANGED <<apartVars, requireDefined, sessions, allocated, age, editCount, dirs>>

\* GET /session/:id/stream, /info, /download: handleSessionStream,
\* handleSessionInfo, handleSessionDownload.  Each looks the session up and
\* stats session.currentVideo; a missing file is a 500.
ReadOnlyHandlers == {"handleSessionStream", "handleSessionInfo", "handleSessionDownload"}

ReadWorkingFile(r, id, action, handler) ==
  /\ req[r].pc = "idle" /\ Delivered
  /\ Route("GET", id, action) = handler
  /\ LET q == NewRequest("GET", id, action, handler)
     IN  req' = [req EXCEPT ![r] =
           IF ~getSession(id)
           THEN Answered(q, ErrorReply(404, "Session not found"))
           ELSE IF Current \notin files[id]
           THEN Answered(q, ErrorReply(500, "ENOENT"))
           ELSE Answered(q, Reply(200, id,
                  IF handler = "handleSessionInfo"
                  THEN {<<"duration", content[id]>>, <<"editCount", editCount[id]>>,
                        <<"age", age[id]>>}
                  ELSE {<<"size", content[id]>>}))]
  /\ UNCHANGED <<apartVars, requireDefined, sessions, allocated, age, editCount,
                 dirs, files, content, uploaded>>

handleSessionStream(r, id) == ReadWorkingFile(r, id, "stream", "handleSessionStream")
handleSessionInfo(r, id) == ReadWorkingFile(r, id, "info", "handleSessionInfo")
handleSessionDownload(r, id) == ReadWorkingFile(r, id, "download", "handleSessionDownload")

\* DELETE /session/:id: handleSessionDelete.
handleSessionDelete(r, id) ==
  /\ req[r].pc = "idle" /\ Delivered
  /\ Route("DELETE", id, "") = "handleSessionDelete"
  /\ cleanupSession({id})
  /\ req' = [req EXCEPT ![r] =
       Answered(NewRequest("DELETE", id, "", "handleSessionDelete"),
                Reply(200, "", {<<"success", 1>>}))]
  /\ UNCHANGED <<apartVars, requireDefined, allocated,
                 editCount, uploaded>>

\* The age of a session one period later.  Ages past the threshold are not
\* told apart: the sweep compares createdAt with the threshold only.
Older(a) == IF a > IdleThreshold THEN a ELSE a + 1

\* The setInterval callback (lines 106-114), at the first run after another
\* period has passed: every session with createdAt < Date.now() - 2 h is
\* handed to cleanupSession.  (The runs in between find no session that the
\* run before them left and leave the state as it is.)
Sweep ==
  /\ Delivered
  /\ LET aged == [s \in SessionIds |-> IF s \in sessions THEN Older(age[s]) ELSE age[s]]
         after == CleanedUp({ id \in sessions : aged[id] > IdleThreshold })
     IN  /\ sessions' = after.sessions
         /\ dirs' = after.dirs
         /\ files' = after.files
         /\ content' = after.content
         /\ age' = [s \in SessionIds |-> IF s \in after.sessions THEN aged[s] ELSE 0]
  /\ UNCHANGED <<apartVars, requireDefined, allocated, editCount,
                 uploaded, req>>

\* The handlers whose work on an existing session is not modelled: each
\* starts with the same lookup and 404 reply.
OtherHandlers ==
  {"handleSessionChapters", "handleAssetUpload", "handleAssetList", "handleAssetDelete",
   "handleAssetThumbnail", "handleAssetStream", "handleProjectGet", "handleProjectSave",
   "handleProjectRender", "handleRenderDownload", "handleCreateGif", "handleTranscribe",
   "handleTranscribeAndExtract", "handleRenderMotionGraphic"}

\* The method and path of each of those handlers.
OtherEndpoints ==
  { e \in Methods \X PathActions : Route(e[1], "s0", e[2]) \in OtherHandlers }

\* A request for one of those handlers with an id getSession does not find.
SessionNotFound(r, method, id, action) ==
  /\ req[r].pc = "idle" /\ Delivered
  /\ Route(method, id, action) \in OtherHandlers
  /\ ~getSession(id)
  /\ req' = [req EXCEPT ![r] =
       Answered(NewRequest(method, id, action, Route(method, id, action)),
                ErrorReply(404, "Session not found"))]
  /\ UNCHANGED <<apartVars, requireDefined, sessions, allocated, age, editCount,
                 dirs, files, content, uploaded>>

\* Requests no branch of the router matches: one for each of the three
\* fall-through replies (lines 2733, 2767, 2772).
UnroutedEndpoints ==
  { <<"PUT", "assets/a">>, <<"POST", "renders/preview">>, <<"GET", "process">> }

EndpointNotFound(r, method, id, action) ==
  /\ req[r].pc = "idle" /\ Delivered
  /\ Route(method, id, action) \in
       {"assetEndpointNotFound", "renderEndpointNotFound", "sessionEndpointNotFound"}
  /\ req' = [req EXCEPT ![r] =
       Answered(NewRequest(method, id, action, Route(method, id, action)),
                ErrorReply(404,
                  CASE Route(method, id, action) = "assetEndpointNotFound" ->
                         "Asset endpoint not found"
                    [] Route(method, id, action) = "renderEndpointNotFound" ->
                         "Render endpoint not found"
                    [] OTHER -> "Session endpoint not found"))]
  /\ UNCHANGED <<apartVars, requireDefined, sessions, allocated, age, editCount,
                 dirs, files, content, uploaded>>

\* ---------------------------------------------- in-place edit of a session

\* Mutant: the count is left as it is.
Increment_none(count) == count
\* session.editCount++
Increment(count) == count + 1

\* POST /session/:id/process: handleSessionProcess up to the spawn of ffmpeg
\* (lookup, body, the missing-command reply, the argument list).
handleSessionProcess(r, id) ==
  /\ req[r].pc = "idle" /\ Delivered
  /\ Route("POST", id, "process") = "handleSessionProcess"
  /\ LET q == NewRequest("POST", id, "process", "handleSessionProcess")
     IN  IF ~getSession(id)
         THEN req' = [req EXCEPT ![r] = Answered(q, ErrorReply(404, "Session not found"))]
         ELSE \/ req' = [req EXCEPT ![r] = Answered(q, ErrorReply(500, "Unexpected token"))]
              \/ req' = [req EXCEPT ![r] = Answered(q, ErrorReply(400, "Missing command"))]
              \/ /\ editCount[id] < MaxEdits
                 /\ req' = [req EXCEPT ![r] = [q EXCEPT !.pc = "ffmpeg"]]
  /\ UNCHANGED <<apartVars, requireDefined, sessions, allocated, age, editCount,
                 dirs, files, content, uploaded>>

\* handleSessionProcess from the exit of ffmpeg (line 907) to the start of
\* rename: a non-zero exit is answered with a 500; otherwise the working file
\* is unlinked (line 911) and the rename of the output is issued (line 912).
\* The command is the client's: ffmpeg may or may not have written outputPath.
ProcessFfmpegExit(r) ==
  /\ req[r].handler = "handleSessionProcess" /\ req[r].pc = "ffmpeg" /\ Delivered
  /\ LET s == req[r].id
     IN  \E ok \in BOOLEAN, wrote \in BOOLEAN, duration \in MediaDurations :
           /\ wrote => s \in dirs
           /\ LET written == IF wrote THEN files[s] \cup {OutputOf(r)} ELSE files[s]
              IN  IF ~ok
                  THEN /\ files' = [files EXCEPT ![s] = written]
                       /\ req' = [req EXCEPT ![r] = Answered(@, ErrorReply(500, "FFmpeg failed"))]
                  ELSE IF Current \notin written
                  THEN /\ files' = [files EXCEPT ![s] = written]
                       /\ req' = [req EXCEPT ![r] = Answered(@, ErrorReply(500, "ENOENT"))]
                  ELSE /\ files' = [files EXCEPT ![s] = written \ {Current}]
                       /\ req' = [req EXCEPT ![r] =
                            [@ EXCEPT !.pc = "rename", !.outDuration = duration]]
  /\ UNCHANGED <<apartVars, requireDefined, sessions, allocated, age, editCount,
                 dirs, content, uploaded>>

\* handleSessionProcess from the end of rename(outputPath, currentVideo) to the
\* start of stat (line 914).
ProcessRenamed(r) ==
  /\ req[r].handler = "handleSessionProcess" /\ req[r].pc = "rename" /\ Delivered
  /\ LET s == req[r].id
     IN  IF OutputOf(r) \in files[s]
         THEN /\ files' = [files EXCEPT ![s] = (@ \ {OutputOf(r)}) \cup {Current}]
              /\ content' = [content EXCEPT ![s] = req[r].outDuration]
              /\ req' = [req EXCEPT ![r] = [@ EXCEPT !.pc = "stat"]]
         ELSE /\ req' = [req EXCEPT ![r] = Answered(@, ErrorReply(500, "ENOENT"))]
              /\ UNCHANGED <<files, content>>
  /\ UNCHANGED <<apartVars, requireDefined, sessions, allocated, age, editCount,
                 dirs, uploaded>>

\* handleSessionProcess from the end of stat: getVideoDuration, editCount++,
\* the reply (lines 914-926).
ProcessStat(r) ==
  /\ req[r].handler = "handleSessionProcess" /\ req[r].pc = "stat" /\ Delivered
  /\ LET s == req[r].id
     IN  IF Current \in files[s]
         THEN /\ editCount' = [editCount EXCEPT ![s] = Increment(@)]
              /\ req' = [req EXCEPT ![r] =
                   Answered(@, Reply(200, "", {<<"duration", content[s]>>,
                                               <<"size", content[s]>>,
                                               <<"editCount", Increment(editCount[s])>>}))]
         ELSE /\ req' = [req EXCEPT ![r] = Answered(@, ErrorReply(500, "ENOENT"))]
              /\ UNCHANGED editCount
  /\ UNCHANGED <<apartVars, requireDefined, sessions, allocated, age, dirs, files,
                 content, uploaded>>

\* ------------------------------------------- dead-air removal of a session

\* What detectSilence can parse out of ffmpeg's report on a file of the given
\* duration: periods in order, one after the other, inside the file.
DetectedSilence(totalDuration) ==
  { sp \in SeqsUpTo({ iv \in [start : 0..totalDuration, end : 0..totalDuration] :
                        iv.start < iv.end }, MaxDetected) :
      \A k \in 1..(Len(sp) - 1) : sp[k].end <= sp[k + 1].start }

RECURSIVE SumOfLengths(_)
\* keepSegments.reduce((sum, seg) => sum + (seg.end - seg.start), 0)
SumOfLengths(segments) ==
  IF Len(segments) = 0 THEN 0
  ELSE (Head(segments).end - Head(segments).start) + SumOfLengths(Tail(segments))

\* segmentPaths while the extraction loop is at index i.
SegmentPaths(r, i) == { SegmentOf(r, j) : j \in 0..i }
\* All the segment files the request can have pushed.
AllSegmentPaths(r) == { SegmentOf(r, j) : j \in 0..MaxDur }

\* POST /session/:id/remove-dead-air: handleSessionRemoveDeadAir up to the
\* spawn of the silence-detection ffmpeg (lookup, body, getVideoDuration).
handleSessionRemoveDeadAir(r, id) ==
  /\ req[r].pc = "idle" /\ Delivered
  /\ Route("POST", id, "remove-dead-air") = "handleSessionRemoveDeadAir"
  /\ LET q == NewRequest("POST", id, "remove-dead-air", "handleSessionRemoveDeadAir")
     IN  IF ~getSession(id)
         THEN req' = [req EXCEPT ![r] = Answered(q, ErrorReply(404, "Session not found"))]
         ELSE \/ req' = [req EXCEPT ![r] = Answered(q, ErrorReply(500, "Unexpected token"))]
              \/ /\ editCount[id] < MaxEdits
                 /\ req' = [req EXCEPT ![r] =
                      [q EXCEPT !.pc = "detect",
                                !.inputOpened = (Current \in files[id]),
                                !.totalDuration =
                                   IF Current \in files[id] THEN content[id] ELSE 0]]
  /\ UNCHANGED <<apartVars, requireDefined, sessions, allocated, age, editCount,
                 dirs, files, content, uploaded>>

\* The catch block of handleSessionRemoveDeadAir (lines 1038-1043): the
\* segment files pushed so far are unlinked and a 500 is sent.
DeadAirCatch(r, q, present, pushed, error) ==
  /\ files' = [files EXCEPT ![q.id] = present \ pushed]
  /\ req' = [req EXCEPT ![r] = Answered(q, ErrorReply(500, error))]

\* writeFileSync(concatListPath) and the spawn of the concat ffmpeg
\* (lines 1008-1012), with `present` the files of the directory.
DeadAirWriteConcatList(r, q, present, pushed) ==
  IF q.id \in dirs
  THEN /\ files' = [files EXCEPT ![q.id] = present \cup {ConcatListOf(r)}]
       /\ req' = [req EXCEPT ![r] = [q EXCEPT !.pc = "concat"]]
  ELSE DeadAirCatch(r, q, present, pushed, "ENOENT")

\* handleSessionRemoveDeadAir from the exit of the detection ffmpeg (line 159)
\* to the spawn of the first segment extraction: the parsed silence periods,
\* the no-silence reply, calculateKeepSegments and the durations.
DeadAirDetected(r) ==
  /\ req[r].handler = "handleSessionRemoveDeadAir" /\ req[r].pc = "detect" /\ Delivered
  /\ LET s == req[r].id
         totalDuration == req[r].totalDuration
     IN  \/ DeadAirCatch(r, req[r], files[s], {}, "FFmpeg failed")
         \/ /\ req[r].inputOpened
            /\ \E silencePeriods \in DetectedSilence(totalDuration) :
                 IF Len(silencePeriods) = 0
                 THEN /\ req' = [req EXCEPT ![r] =
                           Answered(@, Reply(200, "", {<<"duration", totalDuration>>,
                                                       <<"removedDuration", 0>>}))]
                      /\ UNCHANGED files
                 ELSE LET keepSegments ==
                            calculateKeepSegments(silencePeriods, totalDuration,
                                                  MinSegmentDuration)
                          q == [req[r] EXCEPT
                                  !.keepCount = Len(keepSegments),
                                  !.totalKeptDuration = SumOfLengths(keepSegments)]
                      IN  IF Len(keepSegments) = 0
                          THEN DeadAirWriteConcatList(r, q, files[s], {})
                          ELSE /\ req' = [req EXCEPT ![r] = [q EXCEPT !.pc = "segment", !.i = 0]]
                               /\ UNCHANGED files
  /\ UNCHANGED <<apartVars, requireDefined, sessions, allocated, age, editCount,
                 dirs, content, uploaded>>

\* handleSessionRemoveDeadAir from the exit of the ffmpeg extracting segment i
\* (line 1003): the next segment is pushed and its extraction spawned, or,
\* after the last one, the concat list is written and the concat spawned.
\* A failed ffmpeg may leave a partial segment file.
DeadAirSegmentExit(r) ==
  /\ req[r].handler = "handleSessionRemoveDeadAir" /\ req[r].pc = "segment" /\ Delivered
  /\ LET s == req[r].id
         i == req[r].i
     IN  \E ok \in BOOLEAN, wrote \in BOOLEAN :
           /\ wrote => s \in dirs
           /\ ok => (wrote <=> s \in dirs)
           /\ LET present == IF wrote THEN files[s] \cup {SegmentOf(r, i)} ELSE files[s]
              IN  IF ~ok
                  THEN DeadAirCatch(r, req[r], present, SegmentPaths(r, i), "FFmpeg failed")
                  ELSE IF i + 1 < req[r].keepCount
                  THEN /\ files' = [files EXCEPT ![s] = present]
                       /\ req' = [req EXCEPT ![r] = [@ EXCEPT !.i = i + 1]]
                  ELSE DeadAirWriteConcatList(r, req[r], present, SegmentPaths(r, i))
  /\ UNCHANGED <<apartVars, requireDefined, sessions, allocated, age, editCount,
                 dirs, content, uploaded>>

\* handleSessionRemoveDeadAir from the exit of the concat ffmpeg (line 1012) to
\* the start of rename: the working file is unlinked (line 1016) and the
\* rename of the output issued (line 1017).  ffmpeg's concat demuxer rejects
\* an empty list, so with no keep segment the concat fails.
DeadAirConcatExit(r) ==
  /\ req[r].handler = "handleSessionRemoveDeadAir" /\ req[r].pc = "concat" /\ Delivered
  /\ LET s == req[r].id
         pushed == SegmentPaths(r, req[r].keepCount - 1)
     IN  \E ok \in BOOLEAN, wrote \in BOOLEAN :
           /\ wrote => s \in dirs
           /\ ok => (wrote <=> s \in dirs)
           /\ ok => req[r].keepCount > 0
           /\ LET present == IF wrote THEN files[s] \cup {DeadAirOutputOf(r)} ELSE files[s]
              IN  IF ~ok
                  THEN DeadAirCatch(r, req[r], present, pushed, "FFmpeg failed")
                  ELSE IF Current \notin present
                  THEN DeadAirCatch(r, req[r], present, pushed, "ENOENT")
                  ELSE /\ files' = [files EXCEPT ![s] = present \ {Current}]
                       /\ req' = [req EXCEPT ![r] =
                            [@ EXCEPT !.pc = "rename",
                                      !.outDuration = req[r].totalKeptDuration]]
  /\ UNCHANGED <<apartVars, requireDefined, sessions, allocated, age, editCount,
                 dirs, content, uploaded>>

\* handleSessionRemoveDeadAir from the end of rename(outputPath, currentVideo)
\* to the start of stat: the segments and the concat list are unlinked
\* (lines 1020-1021).
DeadAirRenamed(r) ==
  /\ req[r].handler = "handleSessionRemoveDeadAir" /\ req[r].pc = "rename" /\ Delivered
  /\ LET s == req[r].id
         pushed == SegmentPaths(r, req[r].keepCount - 1)
     IN  IF DeadAirOutputOf(r) \in files[s]
         THEN /\ files' = [files EXCEPT ![s] =
                   ((@ \ {DeadAirOutputOf(r)}) \cup {Current}) \
                   (pushed \cup {ConcatListOf(r)})]
              /\ content' = [content EXCEPT ![s] = req[r].outDuration]
              /\ req' = [req EXCEPT ![r] = [@ EXCEPT !.pc = "stat"]]
         ELSE /\ DeadAirCatch(r, req[r], files[s], pushed, "ENOENT")
              /\ UNCHANGED content
  /\ UNCHANGED <<apartVars, requireDefined, sessions, allocated, age, editCount,
                 dirs, uploaded>>

\* handleSessionRemoveDeadAir from the end of stat: editCount++ and the reply
\* (lines 1023-1036).
DeadAirStat(r) ==
  /\ req[r].handler = "handleSessionRemoveDeadAir" /\ req[r].pc = "stat" /\ Delivered
  /\ LET s == req[r].id
         pushed == SegmentPaths(r, req[r].keepCount - 1)
     IN  IF Current \in files[s]
         THEN /\ editCount' = [editCount EXCEPT ![s] = Increment(@)]
              /\ req' = [req EXCEPT ![r] =
                   Answered(@, Reply(200, "",
                     {<<"duration", req[r].totalKeptDuration>>,
                      <<"originalDuration", req[r].totalDuration>>,
                      <<"removedDuration", req[r].totalDuration - req[r].totalKeptDuration>>,
                      <<"size", content[s]>>,
                      <<"editCount", Increment(editCount[s])>>}))]
              /\ UNCHANGED files
         ELSE /\ DeadAirCatch(r, req[r], files[s], pushed, "ENOENT")
              /\ UNCHANGED editCount
  /\ UNCHANGED <<apartVars, requireDefined, sessions, allocated, age, dirs,
                 content, uploaded>>

\* ------------------------------------------------------ the specification

Init ==
  /\ KeepStart
  /\ JobsStart
  /\ ProjStart
  /\ ServeStart
  /\ GifsStart
  /\ PollStart
  /\ SaveStart
  /\ DetectStart
  /\ RenderStart
  /\ TimelineStart
  /\ requireDefined \in BOOLEAN
  /\ ServerStart

Next ==
  \/ \E r \in Requests : Release(r)
  \/ \E r \in Requests, action \in ReservedPaths : handleSessionCreate(r, action)
  \/ \E r \in Requests, action \in ReservedPaths : handleSessionUpload(r, action)
  \/ \E r \in Requests : UploadRenamed(r)
  \/ \E r \in Requests, id \in PathIds : handleSessionStream(r, id)
  \/ \E r \in Requests, id \in PathIds : handleSessionInfo(r, id)
  \/ \E r \in Requests, id \in PathIds : handleSessionDownload(r, id)
  \/ \E r \in Requests, id \in PathIds : handleSessionDelete(r, id)
  \/ Sweep
  \/ \E r \in Requests, e \in OtherEndpoints, id \in PathIds :
       SessionNotFound(r, e[1], id, e[2])
  \/ \E r \in Requests, e \in UnroutedEndpoints, id \in PathIds :
       EndpointNotFound(r, e[1], id, e[2])
  \/ \E r \in Requests, id \in PathIds : handleSessionProcess(r, id)
  \/ \E r \in Requests : ProcessFfmpegExit(r)
  \/ \E r \in Requests : ProcessRenamed(r)
  \/ \E r \in Requests : ProcessStat(r)
  \/ \E r \in Requests, id \in PathIds : handleSessionRemoveDeadAir(r, id)
  \/ \E r \in Requests : DeadAirDetected(r)
  \/ \E r \in Requests : DeadAirSegmentExit(r)
  \/ \E r \in Requests : DeadAirConcatExit(r)
  \/ \E r \in Requests : DeadAirRenamed(r)
  \/ \E r \in Requests : DeadAirStat(r)

Spec == Init /\ [][Next]_vars

\* ------------------------- asset uploads and renders of a session on disk

\* Files in the assets and renders directories of a session, named after the
\* request that made them: the file formidable receives, <assetId>.<ext>,
\* <assetId>_thumb.jpg, and preview.mp4 or export-<t>.mp4.
UploadedFileOf(r) == <<"upload", r, 0>>
AssetOf(r) == <<"asset", r, 0>>
ThumbOf(r) == <<"thumb", r, 0>>
RenderOf(r) == <<"render", r, 0>>

\* Mutant: the writer makes the directory it needs.
Created_mkdir(s, name) == files[s] \cup {name}
\* The files of session s after a write stream or an ffmpeg opens the path
\* `name` under session.dir for writing: open fails with ENOENT when rmSync
\* has removed the directory, and no code but createSession makes it.
Created(s, name) == IF s \in dirs THEN files[s] \cup {name} ELSE files[s]

\* POST /session/:id/assets: handleAssetUpload up to await form.parse(req).
handleAssetUpload(r, id) ==
  /\ req[r].pc = "idle" /\ Delivered
  /\ Route("POST", id, "assets") = "handleAssetUpload"
  /\ LET q == NewRequest("POST", id, "assets", "handleAssetUpload")
     IN  IF ~getSession(id)
         THEN req' = [req EXCEPT ![r] = Answered(q, ErrorReply(404, "Session not found"))]
         ELSE req' = [req EXCEPT ![r] = [q EXCEPT !.pc = "parse"]]
  /\ UNCHANGED <<apartVars, requireDefined, sessions, allocated, age, editCount,
                 dirs, files, content, uploaded>>

\* form.parse settles: it rejects, or the form has no file, or formidable has
\* written the file into session.assetsDir and rename is issued.
AssetUploadParsed(r) ==
  /\ req[r].handler = "handleAssetUpload" /\ req[r].pc = "parse" /\ Delivered
  /\ LET s == req[r].id
     IN  \/ /\ req' = [req EXCEPT ![r] = Answered(@, ErrorReply(500, "parse failed"))]
            /\ UNCHANGED files
         \/ /\ req' = [req EXCEPT ![r] = Answered(@, ErrorReply(400, "Missing file"))]
            /\ UNCHANGED files
         \/ /\ files' = [files EXCEPT ![s] = Created(s, UploadedFileOf(r))]
            /\ req' = [req EXCEPT ![r].pc = "rename"]
  /\ UNCHANGED <<apartVars, requireDefined, sessions, allocated, age, editCount,
                 dirs, content, uploaded>>

\* rename(uploadedFile.filepath, assetPath) settles; then getMediaInfo or
\* getVideoDuration is awaited.
AssetUploadRenamed(r) ==
  /\ req[r].handler = "handleAssetUpload" /\ req[r].pc = "rename" /\ Delivered
  /\ LET s == req[r].id
     IN  IF UploadedFileOf(r) \in files[s]
         THEN /\ files' = [files EXCEPT ![s] = (@ \ {UploadedFileOf(r)}) \cup {AssetOf(r)}]
              /\ req' = [req EXCEPT ![r].pc = "probe"]
         ELSE /\ req' = [req EXCEPT ![r] = Answered(@, ErrorReply(500, "ENOENT"))]
              /\ UNCHANGED files
  /\ UNCHANGED <<apartVars, requireDefined, sessions, allocated, age, editCount,
                 dirs, content, uploaded>>

\* The probe has settled (it returns zeros when it fails) and
\* generateThumbnail has: its ffmpeg reads the asset and writes the
\* thumbnail, or fails, which is only logged.  Then stat is awaited.
AssetUploadProbed(r) ==
  /\ req[r].handler = "handleAssetUpload" /\ req[r].pc = "probe" /\ Delivered
  /\ LET s == req[r].id
     IN  \E thumbnail \in BOOLEAN :
           /\ thumbnail => AssetOf(r) \in files[s]
           /\ files' = [files EXCEPT ![s] =
                          IF thumbnail THEN Created(s, ThumbOf(r)) ELSE @]
  /\ req' = [req EXCEPT ![r].pc = "stat"]
  /\ UNCHANGED <<apartVars, requireDefined, sessions, allocated, age, editCount,
                 dirs, content, uploaded>>

\* stat(assetPath) settles: session.assets.set and the 200, or the catch.
AssetUploadStat(r) ==
  /\ req[r].handler = "handleAssetUpload" /\ req[r].pc = "stat" /\ Delivered
  /\ LET s == req[r].id
     IN  req' = [req EXCEPT ![r] =
           IF AssetOf(r) \in files[s]
           THEN Answered(@, Reply(200, "", {<<"success", 1>>}))
           ELSE Answered(@, ErrorReply(500, "ENOENT"))]
  /\ UNCHANGED <<apartVars, requireDefined, sessions, allocated, age, editCount,
                 dirs, files, content, uploaded>>

\* POST /session/:id/render: handleProjectRender up to await runFFmpeg (the
\* lookup, the body, the 400 for an empty timeline, the command).
RenderRequested(r, id) ==
  /\ req[r].pc = "idle" /\ Delivered
  /\ Route("POST", id, "render") = "handleProjectRender"
  /\ LET q == NewRequest("POST", id, "render", "handleProjectRender")
     IN  IF ~getSession(id)
         THEN req' = [req EXCEPT ![r] = Answered(q, ErrorReply(404, "Session not found"))]
         ELSE \/ req' = [req EXCEPT ![r] = Answered(q, ErrorReply(400, "No clips in timeline"))]
              \/ req' = [req EXCEPT ![r] = [q EXCEPT !.pc = "ffmpeg"]]
  /\ UNCHANGED <<apartVars, requireDefined, sessions, allocated, age, editCount,
                 dirs, files, content, uploaded>>

\* runFFmpeg settles (line 1699): ffmpeg has or has not opened outputPath in
\* session.rendersDir, and exits with 0 or not.  Then stat is awaited.
RenderEncoded(r) ==
  /\ req[r].handler = "handleProjectRender" /\ req[r].pc = "ffmpeg" /\ Delivered
  /\ LET s == req[r].id
     IN  \E ok \in BOOLEAN, wrote \in BOOLEAN :
           /\ files' = [files EXCEPT ![s] = IF wrote THEN Created(s, RenderOf(r)) ELSE @]
           /\ req' = [req EXCEPT ![r] =
                IF ok THEN [@ EXCEPT !.pc = "stat"]
                ELSE Answered(@, ErrorReply(500, "FFmpeg failed"))]
  /\ UNCHANGED <<apartVars, requireDefined, sessions, allocated, age, editCount,
                 dirs, content, uploaded>>

\* stat(outputPath) settles (line 1702): the 200 or the catch.
RenderStatted(r) ==
  /\ req[r].handler = "handleProjectRender" /\ req[r].pc = "stat" /\ Delivered
  /\ LET s == req[r].id
     IN  req' = [req EXCEPT ![r] =
           IF RenderOf(r) \in files[s]
           THEN Answered(@, Reply(200, "", {<<"success", 1>>}))
           ELSE Answered(@, ErrorReply(500, "ENOENT"))]
  /\ UNCHANGED <<apartVars, requireDefined, sessions, allocated, age, editCount,
                 dirs, files, content, uploaded>>

\* Uploads and renders of a session that is deleted or swept meanwhile.
NextDestroy ==
  \/ \E r \in Requests : Release(r)
  \/ \E r \in Requests, action \in ReservedPaths : handleSessionCreate(r, action)
  \/ \E r \in Requests, id \in PathIds : handleSessionDelete(r, id)
  \/ Sweep
  \/ \E r \in Requests, id \in PathIds : handleAssetUpload(r, id)
  \/ \E r \in Requests : AssetUploadParsed(r)
  \/ \E r \in Requests : AssetUploadRenamed(r)
  \/ \E r \in Requests : AssetUploadProbed(r)
  \/ \E r \in Requests : AssetUploadStat(r)
  \/ \E r \in Requests, id \in PathIds : RenderRequested(r, id)
  \/ \E r \in Requests : RenderEncoded(r)
  \/ \E r \in Requests : RenderStatted(r)

SpecDestroy == Init /\ [][NextDestroy]_vars

\* Sessions created, read and deleted while the timer of the sweep runs.
NextSweep ==
  \/ \E r \in Requests : Release(r)
  \/ \E r \in Requests, action \in ReservedPaths : handleSessionCreate(r, action)
  \/ \E r \in Requests, action \in ReservedPaths : handleSessionUpload(r, action)
  \/ \E r \in Requests : UploadRenamed(r)
  \/ \E r \in Requests, id \in PathIds : handleSessionInfo(r, id)
  \/ \E r \in Requests, id \in PathIds : handleSessionDelete(r, id)
  \/ Sweep

\* setInterval runs the sweep every 30 minutes whatever the requests are
\* (Sweep is taken again and again even if replies are waiting in between),
\* and every reply written is delivered.
SpecSweep ==
  /\ Init
  /\ [][NextSweep]_vars
  /\ SF_vars(Sweep)
  /\ \A r \in Requests : WF_vars(Release(r))

\* ------------------------------------- where the temporary files are put

\* Session ids (randomUUID()): two that start with the same 8 characters and
\* one that does not.
JobSessionIds == {"aaaaaaaa-1", "aaaaaaaa-2", "bbbbbbbb-1"}
\* sessionId.substring(0, 8)
Substring8(sessionId) ==
  IF sessionId \in {"aaaaaaaa-1", "aaaaaaaa-2"} THEN "aaaaaaaa" ELSE "bbbbbbbb"

\* Directories are lists of path segments; a file is a directory and a name.
\* A name is <<prefix, rest, stamp>>, the stamp being the Date.now() or the
\* random part that tells the files of two requests apart (0 where the name
\* has none).
TEMP_DIR == <<"tmp", "hyperedit-ffmpeg">>
SESSIONS_DIR == TEMP_DIR \o <<"sessions">>
SessionDir(sessionId) == SESSIONS_DIR \o <<sessionId>>
AssetsDir(sessionId) == SessionDir(sessionId) \o <<"assets">>
RendersDir(sessionId) == SessionDir(sessionId) \o <<"renders">>
File(dir, name) == [dir |-> dir, name |-> name]

\* The directory `dir` is `root` or lies below it.
Inside(root, dir) ==
  Len(root) <= Len(dir) /\ SubSeq(dir, 1, Len(root)) = root

\* The handlers of requests for a session that create a file, and the file
\* each creates first when it runs in slot j for the session sessionId.
JobKinds ==
  {"handleSessionUpload", "handleSessionProcess", "handleSessionRemoveDeadAir",
   "handleSessionChapters", "handleAssetUpload", "handleProjectRender",
   "handleTranscribe", "handleTranscribeAndExtract"}

TempFileOf(kind, sessionId, j) ==
  CASE kind = "handleSessionUpload" ->          \* formidable, uploadDir: TEMP_DIR
         File(TEMP_DIR, <<"upload", "", j>>)
    [] kind = "handleSessionProcess" ->         \* output-${Date.now()}.mp4
         File(SessionDir(sessionId), <<"output", ".mp4", j>>)
    [] kind = "handleSessionRemoveDeadAir" ->   \* concat-${Date.now()}.txt
         File(SessionDir(sessionId), <<"concat", ".txt", j>>)
    [] kind = "handleSessionChapters" ->        \* audio-${Date.now()}.mp3
         File(SessionDir(sessionId), <<"audio", ".mp3", j>>)
    [] kind = "handleAssetUpload" ->            \* formidable, uploadDir: assetsDir
         File(AssetsDir(sessionId), <<"upload", "", j>>)
    [] kind = "handleProjectRender" ->          \* export-${Date.now()}.mp4
         File(RendersDir(sessionId), <<"export", ".mp4", j>>)
    [] kind = "handleTranscribe" ->             \* ${jobId}-caption-audio.mp3
         File(TEMP_DIR, <<Substring8(sessionId), "-caption-audio.mp3", 0>>)
    [] kind = "handleTranscribeAndExtract" ->   \* ${jobId}-audio-whisper.mp3
         File(TEMP_DIR, <<Substring8(sessionId), "-audio-whisper.mp3", 0>>)

\* A handler starts in slot j and creates its file.
JobStart(j, kind, sessionId) ==
  /\ jobs[j] = IdleJob
  /\ jobs' = [jobs EXCEPT ![j] =
       [kind |-> kind, session |-> sessionId, path |-> TempFileOf(kind, sessionId, j)]]
  /\ UNCHANGED <<keepVars, serverVars, proj, tl, rend, serve, gifs, poll, sav, det>>

\* The handler in slot j has moved its file into place or unlinked it, and
\* has answered.
JobEnd(j) ==
  /\ jobs[j] # IdleJob
  /\ jobs' = [jobs EXCEPT ![j] = IdleJob]
  /\ UNCHANGED <<keepVars, serverVars, proj, tl, rend, serve, gifs, poll, sav, det>>

InitJobs ==
  /\ KeepStart
  /\ JobsStart
  /\ ProjStart
  /\ ServeStart
  /\ GifsStart
  /\ PollStart
  /\ SaveStart
  /\ DetectStart
  /\ RenderStart
  /\ TimelineStart
  /\ requireDefined = FALSE
  /\ ServerStart

NextJobs ==
  \/ \E j \in 1..MaxJobs, kind \in JobKinds, sessionId \in JobSessionIds :
       JobStart(j, kind, sessionId)
  \/ \E j \in 1..MaxJobs : JobEnd(j)

SpecJobs == InitJobs /\ [][NextJobs]_vars

\* ------------------------------------------ saving and loading a project

\* JSON.parse(JSON.stringify(obj)) of an object whose fields are finite
\* numbers and strings: a field whose value is undefined is left out.
Jsonify(obj, optional) ==
  [f \in { g \in DOMAIN obj : ~(g \in optional /\ obj[g] = Undefined) } |-> obj[f]]
JsonifyList(list, optional) ==
  [i \in 1..Len(list) |-> Jsonify(list[i], optional)]
OptionalClipFields == {"transform"}
JsonifyProject(data) ==
  [tracks |-> JsonifyList(data.tracks, {}),
   clips |-> JsonifyList(data.clips, OptionalClipFields),
   settings |-> Jsonify(data.settings, {})]

\* Mutant: the empty array taken for falsy.
Truthy_emptyIsFalsy(array) == Len(array) > 0
\* if (array): an array is an object, and every object is truthy.
Truthy(array) == TRUE

\* { ...a, ...b }
Spread(a, b) ==
  [k \in DOMAIN a \cup DOMAIN b |-> IF k \in DOMAIN b THEN b[k] ELSE a[k]]

\* The projects a client saves: tracks, clips with or without a transform,
\* settings with the three fields of ProjectSettings.
TrackChoices ==
  { [id |-> 1, type |-> "video", name |-> 1, order |-> 0],
    [id |-> 3, type |-> "audio", name |-> 3, order |-> 1] }
ClipChoices ==
  { [id |-> 1, assetId |-> 1, trackId |-> 1, start |-> 0, duration |-> 2,
     inPoint |-> 0, outPoint |-> 2, transform |-> t] : t \in {Undefined, 50} }
SettingsChoices ==
  { [width |-> 1920, height |-> 1080, fps |-> f] : f \in {30, 60} }
ProjectChoices ==
  [tracks : SeqsUpTo(TrackChoices, MaxTracks),
   clips : SeqsUpTo(ClipChoices, MaxClips),
   settings : SettingsChoices]

\* What handleProjectSave (lines 1524-1530) makes of the server's record p
\* when the body is JSON.stringify(body).
AfterProjectSave(p, body) ==
  LET data == JsonifyProject(body)
      project == p.project
  IN  [p EXCEPT
        !.pc = "saved",
        !.saved = body,
        !.loaded = DefaultProject,
        !.project =
           [tracks |-> IF Truthy(data.tracks) THEN data.tracks ELSE project.tracks,
            clips |-> IF Truthy(data.clips) THEN data.clips ELSE project.clips,
            settings |-> Spread(project.settings, data.settings)]]

\* PUT /session/:id/project with the body JSON.stringify(data), for a session
\* getSession finds: handleProjectSave (lines 1524-1530).
handleProjectSave(body) ==
  /\ proj' = AfterProjectSave(proj, body)
  /\ UNCHANGED <<keepVars, serverVars, jobs, tl, rend, serve, gifs, poll, sav, det>>

\* GET /session/:id/project for a session getSession finds: handleProjectGet
\* (lines 1507-1512) and the client's response.json().
handleProjectGet ==
  /\ proj.pc = "saved"
  /\ proj' = [proj EXCEPT !.pc = "loaded", !.loaded = JsonifyProject(proj.project)]
  /\ UNCHANGED <<keepVars, serverVars, jobs, tl, rend, serve, gifs, poll, sav, det>>

InitProject ==
  /\ KeepStart
  /\ JobsStart
  /\ ProjStart
  /\ ServeStart
  /\ GifsStart
  /\ PollStart
  /\ SaveStart
  /\ DetectStart
  /\ RenderStart
  /\ TimelineStart
  /\ requireDefined = FALSE
  /\ ServerStart

NextProject ==
  \/ \E body \in ProjectChoices : handleProjectSave(body)
  \/ handleProjectGet

SpecProject == InitProject /\ [][NextProject]_vars

\* ------------------------------------------------ the editor's timeline

\* The minimum clip length of 0.1 s of the resize handles, in ticks.
MinClipDuration == 2

Max2(a, b) == IF a >= b THEN a ELSE b
Min2(a, b) == IF a <= b THEN a ELSE b

\* prev.map(c => c.id === clipId ? f(c) : c)
MapClip(clips, clipId, f(_)) ==
  [i \in 1..Len(clips) |-> IF clips[i].id = clipId THEN f(clips[i]) ELSE clips[i]]
\* Mutant: the filter compares the clip's own id.
WithoutAsset_byClipId(clips, assetId) == SelectSeq(clips, LAMBDA c : c.id # assetId)
\* prev.filter(c => c.assetId !== assetId)
WithoutAsset(clips, assetId) == SelectSeq(clips, LAMBDA c : c.assetId # assetId)
\* clips.find(c => c.id === clipId)
ClipOf(clips, clipId) == clips[CHOOSE i \in 1..Len(clips) : clips[i].id = clipId]
HasClip(clips, clipId) == \E i \in 1..Len(clips) : clips[i].id = clipId

\* addClip(assetId, trackId, start, duration, inPoint, outPoint) of useProject:
\* the clip it builds; Undefined stands for an argument that is not passed.
NewClip(id, assetId, trackId, start, duration, inPoint, outPoint) ==
  [id |-> id, assetId |-> assetId, trackId |-> trackId, start |-> start,
   duration |-> IF duration # Undefined THEN duration ELSE AssetDuration(assetId),
   inPoint |-> IF inPoint # Undefined THEN inPoint ELSE 0,
   outPoint |-> IF outPoint # Undefined THEN outPoint ELSE AssetDuration(assetId)]

\* crypto.randomUUID(): an id no clip of the list has.
FreshClipId(clips) ==
  CHOOSE id \in 1..(Len(clips) + 1) : \A i \in 1..Len(clips) : clips[i].id # id

\* saveProject() called by a handler of the render that saw the state
\* rendered: clearTimeout, then setTimeout of a callback that sends the
\* tracks, clips and settings of that render (the closure of useCallback);
\* what the handler has just passed to setClips is in none of them.
saveProject(rendered) ==
  [armed |-> TRUE,
   body |-> [tracks |-> rendered.tracks, clips |-> rendered.clips,
             settings |-> rendered.settings]]

\* handleDropAsset(asset, trackId, time) of Home, for a video or audio asset
\* dropped at dropTime = Math.max(0, ...): the track is redirected by the
\* type of the asset and addClip appends the clip.  This is the handler as the
\* timeline sees it: the timer its last line arms changes nothing the editor
\* shows, and handleDropAssetSaved below is the handler with that timer.
handleDropAsset(assetId, trackId, time) ==
  /\ tl.drag.mode = "none"
  /\ assetId \in tl.assets
  /\ Len(tl.clips) < MaxTlClips
  /\ LET targetTrackId ==
           IF AssetType(assetId) = "audio" /\ trackId \in {"V1", "V2"} THEN "A1"
           ELSE IF AssetType(assetId) # "audio" /\ trackId = "A1" THEN "V1"
           ELSE trackId
         clip == NewClip(FreshClipId(tl.clips), assetId, targetTrackId, time,
                         Undefined, Undefined, Undefined)
     IN  tl' = [tl EXCEPT !.clips = Append(@, clip)]
  /\ UNCHANGED <<keepVars, serverVars, jobs, proj, rend, serve, gifs, poll, sav, det>>

\* handleDropAsset(asset, trackId, time) of Home with the timer of the save:
\* the track is redirected, addClip queues the new list with setClips, and
\* saveProject() arms the timer from the render the handler belongs to.
handleDropAssetSaved(assetId, trackId, time) ==
  /\ tl.drag.mode = "none"
  /\ assetId \in tl.assets
  /\ Len(tl.clips) < MaxSavedClips
  /\ LET targetTrackId ==
           IF AssetType(assetId) = "audio" /\ trackId \in {"V1", "V2"} THEN "A1"
           ELSE IF AssetType(assetId) # "audio" /\ trackId = "A1" THEN "V1"
           ELSE trackId
         clip == NewClip(FreshClipId(tl.clips), assetId, targetTrackId, time,
                         Undefined, Undefined, Undefined)
     IN  tl' = [tl EXCEPT !.clips = Append(@, clip)]
  /\ sav' = saveProject(tl)
  /\ UNCHANGED <<keepVars, serverVars, jobs, proj, rend, serve, gifs, poll, det>>

\* handleUpdateClipTransform(clipId, transform) of Home: updateClip spreads
\* the transform over the clip and saveProject arms the timer.
handleUpdateClipTransform(clipId, transform) ==
  /\ tl.drag.mode = "none"
  /\ HasClip(tl.clips, clipId)
  /\ tl' = [tl EXCEPT !.clips =
              [i \in 1..Len(@) |-> IF @[i].id = clipId
                                    THEN Spread(@[i], [transform |-> transform])
                                    ELSE @[i]]]
  /\ sav' = saveProject(tl)
  /\ UNCHANGED <<keepVars, serverVars, jobs, proj, rend, serve, gifs, poll, det>>

\* The callback of the timer, 500 ms after the last saveProject: the PUT of
\* the body and handleProjectSave on the server.
SaveTimerFired ==
  /\ sav.armed
  /\ sav' = [sav EXCEPT !.armed = FALSE]
  /\ proj' = AfterProjectSave(proj, sav.body)
  /\ UNCHANGED <<keepVars, serverVars, jobs, tl, rend, serve, gifs, poll, det>>

\* handleMouseDown of TimelineClip on the clip clipId: on the left handle, the
\* right handle or the body.
handleMouseDown(clipId, handle) ==
  /\ tl.drag.mode = "none"
  /\ HasClip(tl.clips, clipId)
  /\ LET clip == ClipOf(tl.clips, clipId)
     IN  tl' = [tl EXCEPT !.drag =
           CASE handle = "left" ->
                  [NoDrag EXCEPT !.mode = "resizeLeft", !.clipId = clipId,
                                 !.initialInPoint = clip.inPoint,
                                 !.initialStart = clip.start]
             [] handle = "right" ->
                  [NoDrag EXCEPT !.mode = "resizeRight", !.clipId = clipId,
                                 !.initialOutPoint = clip.outPoint]
             [] OTHER ->
                  [NoDrag EXCEPT !.mode = "drag", !.clipId = clipId,
                                 !.initialStart = clip.start]]
  /\ UNCHANGED <<keepVars, serverVars, jobs, proj, rend, serve, gifs, poll, sav, det>>

\* handleMoveClip -> moveClip(clipId, newStart)
moveClip(clips, clipId, newStart) ==
  MapClip(clips, clipId, LAMBDA c : [c EXCEPT !.start = Max2(0, newStart)])

\* handleResizeClip(clipId, newInPoint, newOutPoint, newStart) of Home;
\* Undefined stands for a newStart that is not passed.
handleResizeClip(clips, clipId, newInPoint, newOutPoint, newStart) ==
  MapClip(clips, clipId, LAMBDA c :
    [c EXCEPT !.inPoint = newInPoint,
              !.outPoint = newOutPoint,
              !.duration = newOutPoint - newInPoint,
              !.start = IF newStart # Undefined THEN newStart ELSE c.start])

\* handleMouseMove of TimelineClip, the pointer deltaTime away from where
\* the gesture started.
handleMouseMove(deltaTime) ==
  /\ tl.drag.mode # "none"
  /\ LET d == tl.drag
         clip == ClipOf(tl.clips, d.clipId)
     IN  CASE d.mode = "drag" ->
                LET newStart == Max2(0, d.initialStart + deltaTime)
                IN  /\ newStart <= MaxStart
                    /\ tl' = [tl EXCEPT !.clips = moveClip(@, d.clipId, newStart),
                                        !.drag.called = TRUE]
           [] d.mode = "resizeLeft" ->
                LET newInPoint == Max2(0, d.initialInPoint + deltaTime)
                    maxInPoint == clip.outPoint - MinClipDuration
                    clampedInPoint == Min2(newInPoint, maxInPoint)
                    inPointDelta == clampedInPoint - d.initialInPoint
                    newStart == d.initialStart + inPointDelta
                IN  /\ newStart <= MaxStart
                    /\ tl' = [tl EXCEPT
                         !.clips = handleResizeClip(@, d.clipId, clampedInPoint,
                                                    clip.outPoint, Max2(0, newStart)),
                         !.drag.called = TRUE]
           [] OTHER ->
                LET newOutPoint == d.initialOutPoint + deltaTime
                    minOutPoint == clip.inPoint + MinClipDuration
                    maxOutPoint == AssetDuration(clip.assetId)
                    clampedOutPoint == Min2(Max2(newOutPoint, minOutPoint), maxOutPoint)
                IN  tl' = [tl EXCEPT
                      !.clips = handleResizeClip(@, d.clipId, clip.inPoint,
                                                 clampedOutPoint, Undefined),
                      !.drag.called = TRUE]
  /\ UNCHANGED <<keepVars, serverVars, jobs, proj, rend, serve, gifs, poll, sav, det>>

\* handleMouseUp of TimelineClip: the gesture ends (and onDragEnd arms the
\* save timer).
handleMouseUp ==
  /\ tl.drag.mode # "none"
  /\ tl' = [tl EXCEPT !.drag = NoDrag]
  /\ UNCHANGED <<keepVars, serverVars, jobs, proj, rend, serve, gifs, poll, sav, det>>

\* deleteAsset(assetId) of useProject: the DELETE request, which
\* handleAssetDelete answers with a 404 for an asset the session does not
\* have and otherwise by forgetting the asset and its clips, and then the
\* two filters on the editor's own state.
deleteAsset(assetId) ==
  /\ tl.drag.mode = "none"
  /\ tl' = [tl EXCEPT
       !.serverAssets = @ \ {assetId},
       !.serverClips = IF assetId \in tl.serverAssets
                       THEN WithoutAsset(@, assetId) ELSE @,
       !.assets = @ \ {assetId},
       !.clips = WithoutAsset(@, assetId)]
  /\ UNCHANGED <<keepVars, serverVars, jobs, proj, rend, serve, gifs, poll, sav, det>>

InitTimeline ==
  /\ KeepStart
  /\ JobsStart
  /\ ProjStart
  /\ ServeStart
  /\ GifsStart
  /\ PollStart
  /\ SaveStart
  /\ DetectStart
  /\ RenderStart
  /\ TimelineStart
  /\ requireDefined = FALSE
  /\ ServerStart

NextTimeline ==
  \/ \E assetId \in AssetIds, trackId \in {"V1", "A1"}, time \in 0..MaxStart :
       handleDropAsset(assetId, trackId, time)
  \/ \E clipId \in 1..MaxTlClips, handle \in {"left", "right", "body"} :
       handleMouseDown(clipId, handle)
  \/ \E deltaTime \in (-MaxDelta)..MaxDelta : handleMouseMove(deltaTime)
  \/ handleMouseUp
  \/ \E assetId \in AssetIds : deleteAsset(assetId)

SpecTimeline == InitTimeline /\ [][NextTimeline]_vars

\* Edits that call saveProject, and the timer of the save.
TransformValues == {50, 100}
NextSave ==
  \/ \E assetId \in AssetIds, trackId \in {"V1", "A1"}, time \in 0..MaxStart :
       handleDropAssetSaved(assetId, trackId, time)
  \/ \E clipId \in 1..MaxSavedClips, transform \in TransformValues :
       handleUpdateClipTransform(clipId, transform)
  \/ SaveTimerFired

SpecSave == InitTimeline /\ [][NextSave]_vars

\* ------------------------------------------------- rendering a project

\* a || b of JavaScript on numbers: 0 is falsy.
OrElse(a, b) == IF a # 0 THEN a ELSE b

\* trackOrder[clip.trackId] || 0
trackOrder(trackId) ==
  CASE trackId = "V1" -> 0 [] trackId = "V2" -> 1 [] trackId = "V3" -> 2
    [] OTHER -> 0

\* clips.filter(not audio).sort(by trackOrder): Array.prototype.sort is
\* stable, so clips of one order stay as they were.
videoClipsOf(clips) ==
  LET video ==
        SelectSeq(clips, LAMBDA c :
          ~(c.assetId \in DOMAIN RenderAssets
              /\ RenderAssets[c.assetId].type = "audio"))
      ofOrder(k) == SelectSeq(video, LAMBDA c : trackOrder(c.trackId) = k)
  IN  ofOrder(0) \o ofOrder(1) \o ofOrder(2)

\* Math.max(...clips.map(c => c.start + c.duration), 0.1); the floor of 0.1 s
\* is below the end of every timeline rendered here.
RECURSIVE totalDurationOf(_)
totalDurationOf(clips) ==
  IF clips = << >> THEN 0
  ELSE Max2(Head(clips).start + Head(clips).duration, totalDurationOf(Tail(clips)))

\* const { scale = 1 } = ...: the default of a field that is not there.
Default(value, default) == IF value = Undefined THEN default ELSE value

\* The loop over videoClips: the trim and overlay filters pushed for one
\* clip, as the overlay layer they make. scale is in percent.
LayerOf(clip) ==
  LET asset == RenderAssets[clip.assetId]
      inPoint == OrElse(clip.inPoint, 0)
      outPoint == OrElse(clip.outPoint, asset.duration)
      trimDuration == outPoint - inPoint
  IN  [clip |-> clip.id, assetId |-> clip.assetId,
       trimIn |-> inPoint, trimOut |-> outPoint,
       scale |-> Default(clip.transform.scale, 100),
       enableFrom |-> clip.start, enableTo |-> clip.start + trimDuration]

\* The overlay chain, bottom layer first; a clip whose asset is gone is
\* skipped.
RECURSIVE LayersOf(_)
LayersOf(videoClips) ==
  IF videoClips = << >> THEN << >>
  ELSE IF Head(videoClips).assetId \notin DOMAIN RenderAssets
       THEN LayersOf(Tail(videoClips))
       ELSE << LayerOf(Head(videoClips)) >> \o LayersOf(Tail(videoClips))

\* --- the filter graph as the stages pushed on filterParts

\* Stream names: [base], [v3], [out3], [a3], [vout], [aout], and the pads
\* [3:v], [3:a] of input 3.
Label(name, idx) == << name, idx >>
IsPad(label) == label[1] \in {"input:v", "input:a"}

\* One entry of filterParts: the filter, the streams it reads, the stream
\* it names, the clip it was pushed for and the filter's arguments.
Stage(filter, ins, out, clip) ==
  [filter |-> filter, ins |-> ins, out |-> out, clip |-> clip,
   from |-> 0, to |-> 0, delay |-> 0, scale |-> 100, opacity |-> 100,
   x |-> [anchor |-> "centre", offset |-> 0],
   y |-> [anchor |-> "centre", offset |-> 0]]

\* clip.transform?.x || `(W-w)/2`: a number other than 0 is the position
\* itself, anything else the centred position.
OverlayPosition(value) ==
  IF value # Undefined /\ value # 0
  THEN [anchor |-> "origin", offset |-> value]
  ELSE [anchor |-> "centre", offset |-> 0]

\* The body of the loop over videoClips, the graph g and lastVideo carried.
RECURSIVE VideoLoop(_, _, _)
VideoLoop(videoClips, g, lastVideo) ==
  IF videoClips = << >> THEN [g |-> g, lastVideo |-> lastVideo]
  ELSE
    LET clip == Head(videoClips)
    IN  IF clip.assetId \notin DOMAIN RenderAssets
        THEN VideoLoop(Tail(videoClips), g, lastVideo)
        ELSE
          LET asset == RenderAssets[clip.assetId]
              idx == Len(g.inputs)
              inPoint == OrElse(clip.inPoint, 0)
              outPoint == OrElse(clip.outPoint, asset.duration)
              trimDuration == outPoint - inPoint
              clipFilter ==
                [Stage("trim", << Label("input:v", idx) >>, Label("v", idx), clip.id)
                   EXCEPT !.from = inPoint, !.to = outPoint,
                          !.scale = Default(clip.transform.scale, 100)]
              overlay ==
                [Stage("overlay", << lastVideo, Label("v", idx) >>,
                       Label("out", idx), clip.id)
                   EXCEPT !.from = clip.start, !.to = clip.start + trimDuration,
                          !.x = OverlayPosition(clip.transform.x),
                          !.y = OverlayPosition(clip.transform.y)]
          IN  VideoLoop(Tail(videoClips),
                        [g EXCEPT !.inputs = Append(@, clip.assetId),
                                  !.stages = @ \o << clipFilter, overlay >>],
                        Label("out", idx))

\* audioClips: the clips whose asset is of type audio.
audioClipsOf(clips) ==
  SelectSeq(clips, LAMBDA c :
    c.assetId \in DOMAIN RenderAssets /\ RenderAssets[c.assetId].type = "audio")

\* The loop over audioClips: the inputs and the audioInputs pushed.
RECURSIVE AudioLoop(_, _, _)
AudioLoop(audioClips, inputs, audioInputs) ==
  IF audioClips = << >> THEN [inputs |-> inputs, audioInputs |-> audioInputs]
  ELSE
    LET clip == Head(audioClips)
    IN  IF clip.assetId \notin DOMAIN RenderAssets
        THEN AudioLoop(Tail(audioClips), inputs, audioInputs)
        ELSE
          LET asset == RenderAssets[clip.assetId]
              idx == Len(inputs)
              atrim ==
                [Stage("atrim", << Label("input:a", idx) >>, Label("a", idx), clip.id)
                   EXCEPT !.from = OrElse(clip.inPoint, 0),
                          !.to = OrElse(clip.outPoint, asset.duration),
                          !.delay = clip.start * 1000]
          IN  AudioLoop(Tail(audioClips), Append(inputs, clip.assetId),
                        Append(audioInputs, atrim))

\* clips.indexOf(clip), counted from 0.
indexOf(clips, clip) ==
  (CHOOSE k \in 1..Len(clips) : clips[k] = clip) - 1

\* audioInputs.map((_, i) => `[a${clips.indexOf(audioClips[i]) + videoClips.length}]`)
audioMixOf(clips, audioInputs) ==
  LET audioClips == audioClipsOf(clips)
      videoClips == videoClipsOf(clips)
  IN  [i \in 1..Len(audioInputs) |->
         Label("a", indexOf(clips, audioClips[i]) + Len(videoClips))]

\* inputs, filterParts and the -map arguments handleProjectRender hands to
\* ffmpeg for the clips of the project.
CompileGraph(clips) ==
  LET base == Stage("color", << >>, Label("base", 0), 0)
      video == VideoLoop(videoClipsOf(clips),
                         [NoGraph EXCEPT !.stages = << base >>], Label("base", 0))
      copy == Stage("copy", << video.lastVideo >>, Label("vout", 0), 0)
      audio == AudioLoop(audioClipsOf(clips), video.g.inputs, << >>)
      amix == Stage("amix", audioMixOf(clips, audio.audioInputs), Label("aout", 0), 0)
      mixed == Len(audio.audioInputs) > 0
  IN  [inputs |-> audio.inputs,
       stages |-> video.g.stages \o << copy >> \o
                  (IF mixed THEN audio.audioInputs \o << amix >> ELSE << >>),
       maps |-> << Label("vout", 0) >> \o
                (IF mixed THEN << Label("aout", 0) >> ELSE << >>)]

\* The request bodies: none, {"preview": true}, and text that is not JSON.
RenderBodies == {"", "preview", "malformed"}

\* join(session.rendersDir, isPreview ? 'preview.mp4' : `export-${Date.now()}.mp4`)
RenderOutputOf(isPreview) == IF isPreview THEN "preview.mp4" ELSE "export.mp4"

\* Mutant: the render goes on without looking at the clip list.
NoClips_unchecked(clips) == FALSE
\* clips.length === 0
NoClips(clips) == Len(clips) = 0

\* handleProjectRender up to the await of runFFmpeg.
handleProjectRender(body) ==
  /\ rend.pc = "idle"
  /\ rend' =
       IF body = "malformed"
       THEN [rend EXCEPT !.pc = "done",
                         !.response = [status |-> 500, error |-> "Unexpected token"]]
       ELSE IF NoClips(rend.clips)
       THEN [rend EXCEPT !.pc = "done",
                         !.response = [status |-> 400, error |-> "No clips in timeline"]]
       ELSE [rend EXCEPT !.pc = "encoding",
                         !.isPreview = (body = "preview"),
                         !.layers = LayersOf(videoClipsOf(rend.clips)),
                         !.graph = CompileGraph(rend.clips),
                         !.totalDuration = totalDurationOf(rend.clips),
                         !.encoders = @ + 1]
  /\ UNCHANGED <<keepVars, serverVars, jobs, proj, tl, serve, gifs, poll, sav, det>>

\* ffmpeg exits: with the output written and status 0, or with another
\* status, having left a partial output or none.
RenderFfmpegExit(ok, left) ==
  /\ rend.pc = "encoding"
  /\ rend' =
       [rend EXCEPT
          !.pc = "done",
          !.renders = IF ok \/ left THEN @ \cup {RenderOutputOf(rend.isPreview)} ELSE @,
          !.response = IF ok THEN [status |-> 200, error |-> ""]
                       ELSE [status |-> 500, error |-> "FFmpeg exited with code 1"]]
  /\ UNCHANGED <<keepVars, serverVars, jobs, proj, tl, serve, gifs, poll, sav, det>>

\* between(t, min, max) of ffmpeg's expression evaluator: 1 if min <= t <= max.
between(t, min, max) == min <= t /\ t <= max

\* The trimmed stream of a layer has a frame: trim keeps the frames of the
\* input with inPoint <= pts < outPoint.
HasFrames(layer) ==
  /\ layer.trimIn < layer.trimOut
  /\ layer.trimIn < RenderAssets[layer.assetId].duration

\* The overlay filter of the layer draws it on the frame at time t.
Drawn(layer, t) == HasFrames(layer) /\ between(t, layer.enableFrom, layer.enableTo)

\* scale + pad make the layer as large as the canvas, and the overlay puts
\* it at the centre: it hides what is below unless a transform shrinks it.
CoversCanvas(layer) == layer.scale >= 100

\* The output has the frames at the whole seconds before -t totalDuration.
FrameTimes == 0..(rend.totalDuration - 1)

\* Layer i of the compiled graph can be seen in the output frame at time t.
Visible(i, t) ==
  /\ Drawn(rend.layers[i], t)
  /\ \A j \in (i + 1)..Len(rend.layers) :
       ~(Drawn(rend.layers[j], t) /\ CoversCanvas(rend.layers[j]))

\* getPreviewLayers of Home for the playhead at currentTime: for each of the
\* tracks V1, V2, V3 in turn, the clips of the track with
\* start <= currentTime < start + duration whose asset is in the library.
\* (The editor's library is the asset table of the session.)
PreviewOnTrack(clips, trackId, currentTime) ==
  SelectSeq(clips, LAMBDA c :
    /\ c.trackId = trackId
    /\ currentTime >= c.start
    /\ currentTime < c.start + c.duration
    /\ c.assetId \in DOMAIN RenderAssets)
getPreviewLayers(clips, currentTime) ==
  PreviewOnTrack(clips, "V1", currentTime) \o PreviewOnTrack(clips, "V2", currentTime)
    \o PreviewOnTrack(clips, "V3", currentTime)

\* The clips a rendered timeline is made of: the base clip spanning
\* [0,10) on V1, overlays on V2, an audio clip, a clip whose asset is gone,
\* and a clip made by addClip(2, "V2", 0, 1), whose duration is the one
\* passed and whose outPoint is the duration of the asset.
RenderClipChoices ==
  { [id |-> 0, assetId |-> 1, trackId |-> "V1", start |-> 0, duration |-> 10,
     inPoint |-> 0, outPoint |-> 10, transform |-> NoTransform],
    [id |-> 0, assetId |-> 3, trackId |-> "A1", start |-> 1, duration |-> 4,
     inPoint |-> 0, outPoint |-> 4, transform |-> NoTransform],
    [id |-> 0, assetId |-> 4, trackId |-> "V2", start |-> 0, duration |-> 1,
     inPoint |-> 0, outPoint |-> 1, transform |-> NoTransform],
    [id |-> 0, assetId |-> 2, trackId |-> "V2", start |-> 0, duration |-> 1,
     inPoint |-> 0, outPoint |-> 2, transform |-> NoTransform] }
  \cup
  { [id |-> 0, assetId |-> 2, trackId |-> "V2", start |-> start,
     duration |-> 2 - inPoint, inPoint |-> inPoint, outPoint |-> 2,
     transform |-> transform] :
    start \in 0..MaxRenderStart, inPoint \in {0, 1},
    transform \in {NoTransform, [NoTransform EXCEPT !.scale = 50]} }

\* The clips whose filter graph is compiled: clips on the video tracks V1 to
\* V4, a clip with each transform, audio clips, a clip whose asset is gone.
TransformChoices ==
  { [x |-> x, y |-> y, scale |-> scale, opacity |-> opacity] :
    x \in {0, 40}, y \in {0, 30}, scale \in {Undefined, 50},
    opacity \in {Undefined, 50} }
GraphClipChoices ==
  { [id |-> 0, assetId |-> 1, trackId |-> trackId, start |-> 0, duration |-> 10,
     inPoint |-> 0, outPoint |-> 10, transform |-> NoTransform] :
    trackId \in {"V1", "V2", "V3", "V4"} }
  \cup
  { [id |-> 0, assetId |-> 2, trackId |-> "V2", start |-> 3, duration |-> 2,
     inPoint |-> 0, outPoint |-> 2, transform |-> transform] :
    transform \in TransformChoices }
  \cup
  { [id |-> 0, assetId |-> 3, trackId |-> "A1", start |-> start, duration |-> 3,
     inPoint |-> 1, outPoint |-> 4, transform |-> NoTransform] :
    start \in {0, 2} }
  \cup
  { [id |-> 0, assetId |-> 4, trackId |-> "V2", start |-> 0, duration |-> 1,
     inPoint |-> 0, outPoint |-> 1, transform |-> NoTransform] }

\* The clip lists compiled; a clip's id is its place in the list.
GraphClipLists ==
  { [i \in 1..Len(q) |-> [q[i] EXCEPT !.id = i]] :
    q \in SeqsUpTo(GraphClipChoices, MaxGraphClips) }

InitGraph ==
  /\ KeepStart
  /\ JobsStart
  /\ ProjStart
  /\ ServeStart
  /\ GifsStart
  /\ PollStart
  /\ SaveStart
  /\ DetectStart
  /\ TimelineStart
  /\ \E clips \in GraphClipLists : rend = [IdleRender EXCEPT !.clips = clips]
  /\ requireDefined = FALSE
  /\ ServerStart

\* The clip lists rendered; a clip's id is its place in the list.
RenderedClipLists ==
  { [i \in 1..Len(q) |-> [q[i] EXCEPT !.id = i]] :
    q \in SeqsUpTo(RenderClipChoices, MaxRenderClips) }

InitRender ==
  /\ KeepStart
  /\ JobsStart
  /\ ProjStart
  /\ ServeStart
  /\ GifsStart
  /\ PollStart
  /\ SaveStart
  /\ DetectStart
  /\ TimelineStart
  /\ \E clips \in RenderedClipLists : rend = [IdleRender EXCEPT !.clips = clips]
  /\ requireDefined = FALSE
  /\ ServerStart

NextRender ==
  \/ \E body \in RenderBodies : handleProjectRender(body)
  \/ \E ok \in BOOLEAN, left \in BOOLEAN : RenderFfmpegExit(ok, left)

SpecRender == InitRender /\ [][NextRender]_vars

SpecGraph == InitGraph /\ [][NextRender]_vars

\* --------------------------------- serving thumbnails, assets and renders

\* The handlers that send a file, and the router's own 404 for the paths
\* under assets/ and renders/ that none of them takes.
ServeHandlers ==
  {"handleAssetThumbnail", "handleAssetStream", "handleRenderDownload", "router"}

\* The 404 of each handler for what it does not find.
NotFoundOf(handler) ==
  CASE handler = "handleAssetThumbnail" -> "Thumbnail not found"
    [] handler = "handleAssetStream" -> "Asset not found"
    [] handler = "handleRenderDownload" -> "Render not found"
    [] OTHER -> "Asset endpoint not found"

\* res.writeHead(status); res.end(JSON.stringify({ error }))
ServeError(handler, status, error) ==
  [IdleServe EXCEPT !.pc = "done", !.handler = handler, !.status = status,
                    !.error = error, !.ended = 1]

\* The handler up to its first await: the session lookup, require('fs') of
\* handleRenderDownload, the lookup of the file. known: the session exists;
\* found: the asset, thumbnail or render is there.
ServeRequest(n, handler, known, found) ==
  /\ serve[n].pc = "idle"
  /\ serve' = [serve EXCEPT ![n] =
       IF handler = "router" THEN ServeError(handler, 404, NotFoundOf(handler))
       ELSE IF ~known THEN ServeError(handler, 404, "Session not found")
       ELSE IF handler = "handleRenderDownload" /\ ~requireDefined
       THEN [IdleServe EXCEPT !.pc = "thrown", !.handler = handler,
                              !.error = "require is not defined"]
       ELSE IF ~found THEN ServeError(handler, 404, NotFoundOf(handler))
       ELSE [IdleServe EXCEPT !.pc = "stat", !.handler = handler, !.onDisk = TRUE]]
  /\ UNCHANGED <<keepVars, serverVars, jobs, proj, tl, rend, gifs, poll, sav, det>>

\* handleAssetDelete, answering another request, unlinks the asset and its
\* thumbnail while the handler waits.
AssetUnlinked(n) ==
  /\ serve[n].pc \in {"stat", "piping"}
  /\ serve[n].handler \in {"handleAssetThumbnail", "handleAssetStream"}
  /\ serve[n].onDisk
  /\ serve' = [serve EXCEPT ![n].onDisk = FALSE]
  /\ UNCHANGED <<keepVars, serverVars, jobs, proj, tl, rend, gifs, poll, sav, det>>

\* await stat(path) settles: the headers are written, or the rejection
\* leaves the handler, which has no try around it.
ServeStat(n) ==
  /\ serve[n].pc = "stat"
  /\ serve' = [serve EXCEPT ![n] =
       IF serve[n].onDisk THEN [@ EXCEPT !.pc = "piping", !.status = 200]
       ELSE [@ EXCEPT !.pc = "thrown", !.error = "ENOENT"]]
  /\ UNCHANGED <<keepVars, serverVars, jobs, proj, tl, rend, gifs, poll, sav, det>>

\* createReadStream(path).pipe(res): the stream ends and ends res, or its
\* error event, which has no listener, is thrown.
ServePipe(n) ==
  /\ serve[n].pc = "piping"
  /\ serve' = [serve EXCEPT ![n] =
       IF serve[n].onDisk THEN [@ EXCEPT !.pc = "done", !.ended = @ + 1]
       ELSE [@ EXCEPT !.pc = "thrown", !.error = "ENOENT"]]
  /\ UNCHANGED <<keepVars, serverVars, jobs, proj, tl, rend, gifs, poll, sav, det>>

\* The reply is out and the connection takes the next request.
ServeRelease(n) ==
  /\ serve[n].pc = "done"
  /\ serve' = [serve EXCEPT ![n] = IdleServe]
  /\ UNCHANGED <<keepVars, serverVars, jobs, proj, tl, rend, gifs, poll, sav, det>>

InitServe ==
  /\ KeepStart
  /\ JobsStart
  /\ ProjStart
  /\ RenderStart
  /\ ServeStart
  /\ GifsStart
  /\ PollStart
  /\ SaveStart
  /\ DetectStart
  /\ TimelineStart
  /\ requireDefined \in BOOLEAN
  /\ ServerStart

NextServe ==
  \/ \E n \in 1..MaxServe, handler \in ServeHandlers, known \in BOOLEAN,
        found \in BOOLEAN : ServeRequest(n, handler, known, found)
  \/ \E n \in 1..MaxServe : AssetUnlinked(n)
  \/ \E n \in 1..MaxServe : ServeStat(n)
  \/ \E n \in 1..MaxServe : ServePipe(n)
  \/ \E n \in 1..MaxServe : ServeRelease(n)

\* Every await of a handler settles and every stream comes to its end.
SpecServe ==
  /\ InitServe
  /\ [][NextServe]_vars
  /\ \A n \in 1..MaxServe :
       WF_vars(ServeStat(n)) /\ WF_vars(ServePipe(n)) /\ WF_vars(ServeRelease(n))

\* ------------------------------------------ parsing the silence markers

\* The lines of stderr: a silence_start line, a silence_end line (which goes
\* on with "| silence_duration: ..."), or a line with neither word.  The
\* number after the colon is printed by ffmpeg with its sign: silencedetect
\* reports a silence the stream begins with as starting a little before 0.
StderrLines ==
  [marker : {"silence_start"}, time : (-1)..MaxMarkerTime] \cup
  [marker : {"silence_end"}, time : 0..MaxMarkerTime] \cup
  [marker : {"other"}, time : {0}]

\* line.match(/<marker>:\s*([\d.]+)/): the class [\d.] has no minus sign, so
\* the line matches when digits follow the colon and the blanks directly.
Match(line, marker) == line.marker = marker /\ line.time >= 0

\* parseFloat(match[1])
ParseFloat(line) == line.time

\* The for-loop of detectSilence from line i on; currentStart is << >> for
\* null and <<t>> for the number t.
RECURSIVE DetectLoop(_, _, _, _)
DetectLoop(lines, i, currentStart, silencePeriods) ==
  IF i > Len(lines) THEN silencePeriods
  ELSE LET line == lines[i]
           started == IF Match(line, "silence_start") THEN <<ParseFloat(line)>>
                      ELSE currentStart
       IN  IF Match(line, "silence_end") /\ started # << >>
           THEN DetectLoop(lines, i + 1, << >>,
                           Append(silencePeriods,
                                  [start |-> started[1], end |-> ParseFloat(line)]))
           ELSE DetectLoop(lines, i + 1, started, silencePeriods)

\* detectSilence, given the stderr of the silencedetect run.
detectSilence(lines) == DetectLoop(lines, 1, << >>, << >>)

CallDetectSilence ==
  /\ det.pc = "input"
  /\ det' = [det EXCEPT !.pc = "done", !.silences = detectSilence(det.lines)]
  /\ UNCHANGED <<keepVars, serverVars, jobs, proj, tl, rend, serve, gifs, poll, sav>>

InitDetect ==
  /\ KeepStart
  /\ JobsStart
  /\ ProjStart
  /\ ServeStart
  /\ GifsStart
  /\ PollStart
  /\ SaveStart
  /\ det \in [pc : {"input"}, lines : SeqsUpTo(StderrLines, MaxLines),
              silences : {<< >>}]
  /\ RenderStart
  /\ TimelineStart
  /\ requireDefined = FALSE
  /\ ServerStart

NextDetect == CallDetectSilence

SpecDetect == InitDetect /\ [][NextDetect]_vars

\* --------------------------------------------- a GIF for each keyword

\* How the search and the download go for one keyword: the GIF is saved;
\* searchGiphy throws; it finds nothing; the hit has no url; the download is
\* not ok; the GIF is written and the stat after it throws.
GifOutcomes == {"saved", "searchFails", "nothing", "noUrl", "downloadFails", "statFails"}
GifFailures == {"searchFails", "downloadFails", "statFails"}

\* Mutant: an error thrown for one keyword reaches the handler's catch.
OnGifFailure_abort(g) == [g EXCEPT !.pc = "done", !.status = 500]
\* catch (error) { console.warn(...) } inside the loop: on to the next keyword.
OnGifFailure(g) == [g EXCEPT !.i = @ + 1]

\* handleTranscribeAndExtract up to the loop: no video asset is a 400, a
\* failed transcription a 500, otherwise the keywords are extracted.
handleTranscribeAndExtract(start, keywords) ==
  /\ gifs.pc = "idle"
  /\ gifs' = CASE start = "noVideo" -> [gifs EXCEPT !.pc = "done", !.status = 400]
               [] start = "transcribeFails" -> [gifs EXCEPT !.pc = "done", !.status = 500]
               [] OTHER -> [gifs EXCEPT !.pc = "loop", !.keywords = keywords]
  /\ UNCHANGED <<keepVars, serverVars, jobs, proj, tl, rend, serve, poll, sav, det>>

\* One turn of the loop over keywords: searchGiphy, downloadGifAsAsset
\* (which unlinks what it wrote when it throws), gifAssets.push.
GifForKeyword ==
  /\ gifs.pc = "loop"
  /\ gifs.i <= Len(gifs.keywords)
  /\ LET outcome == gifs.keywords[gifs.i]
     IN  gifs' =
           CASE outcome = "saved" ->
                  [gifs EXCEPT !.assetFiles = @ \cup {gifs.i},
                               !.assets = @ \cup {gifs.i},
                               !.gifAssets = Append(@, gifs.i),
                               !.i = @ + 1]
             [] outcome \in GifFailures -> OnGifFailure(gifs)
             [] OTHER -> [gifs EXCEPT !.i = @ + 1]
  /\ UNCHANGED <<keepVars, serverVars, jobs, proj, tl, rend, serve, poll, sav, det>>

\* After the loop: the 200 reply with gifAssets.
GifReply ==
  /\ gifs.pc = "loop"
  /\ gifs.i > Len(gifs.keywords)
  /\ gifs' = [gifs EXCEPT !.pc = "done", !.status = 200]
  /\ UNCHANGED <<keepVars, serverVars, jobs, proj, tl, rend, serve, poll, sav, det>>

InitGifs ==
  /\ KeepStart
  /\ JobsStart
  /\ ProjStart
  /\ RenderStart
  /\ ServeStart
  /\ GifsStart
  /\ PollStart
  /\ SaveStart
  /\ DetectStart
  /\ TimelineStart
  /\ requireDefined = FALSE
  /\ ServerStart

NextGifs ==
  \/ \E start \in {"noVideo", "transcribeFails", "keywords"},
        keywords \in SeqsUpTo(GifOutcomes, MaxKeywords) :
       handleTranscribeAndExtract(start, keywords)
  \/ GifForKeyword
  \/ GifReply

SpecGifs == InitGifs /\ [][NextGifs]_vars

\* ------------------------------------------- polling for the result of a job

\* maxAttempts = 60, the default of the parameter.
DefaultMaxAttempts == 60

\* What a status check can come back with: status complete, still
\* processing, status error, a response that is not ok, a fetch that rejects.
StatusResults == {"complete", "processing", "error", "notOk", "rejected"}

\* Mutant: the loop counter is not advanced.
NextAttempt_stuck(attempt) == attempt
\* attempt++
NextAttempt(attempt) == attempt + 1

\* pollForResult(jobId, maxAttempts) up to the first test of the loop: with
\* no attempt allowed the loop is skipped and the call rejects at once.
pollForResult(maxAttempts) ==
  /\ poll.pc = "idle"
  /\ poll' = IF 0 < maxAttempts
             THEN [IdlePoll EXCEPT !.pc = "fetch", !.maxAttempts = maxAttempts]
             ELSE [IdlePoll EXCEPT !.pc = "rejected", !.maxAttempts = maxAttempts,
                                   !.error = "Request timed out after 60 seconds"]
  /\ UNCHANGED <<keepVars, serverVars, jobs, proj, tl, rend, serve, gifs, sav, det>>

\* The fetch of the status settles: complete returns the data; everything
\* else, thrown or not, ends in the one-second wait.
StatusCheck(result) ==
  /\ poll.pc = "fetch"
  /\ poll' = [poll EXCEPT !.checks = @ + 1,
                          !.pc = IF result = "complete" THEN "returned" ELSE "wait"]
  /\ UNCHANGED <<keepVars, serverVars, jobs, proj, tl, rend, serve, gifs, sav, det>>

\* The one-second timer fires: attempt++, the loop test, and the throw after
\* the loop.
PollTimerFired ==
  /\ poll.pc = "wait"
  /\ poll' = IF NextAttempt(poll.attempt) < poll.maxAttempts
             THEN [poll EXCEPT !.attempt = NextAttempt(@), !.pc = "fetch"]
             ELSE [poll EXCEPT !.attempt = NextAttempt(@), !.pc = "rejected",
                               !.error = "Request timed out after 60 seconds"]
  /\ UNCHANGED <<keepVars, serverVars, jobs, proj, tl, rend, serve, gifs, sav, det>>

InitPoll ==
  /\ KeepStart
  /\ JobsStart
  /\ ProjStart
  /\ RenderStart
  /\ ServeStart
  /\ GifsStart
  /\ PollStart
  /\ SaveStart
  /\ DetectStart
  /\ TimelineStart
  /\ requireDefined = FALSE
  /\ ServerStart

PollSteps ==
  \/ \E result \in StatusResults : StatusCheck(result)
  \/ PollTimerFired

NextPoll ==
  \/ \E maxAttempts \in (0..MaxAttemptsArg) \cup {DefaultMaxAttempts} :
       pollForResult(maxAttempts)
  \/ \E result \in StatusResults : StatusCheck(result)
  \/ PollTimerFired

\* Every fetch settles and every timer fires.
SpecPoll == InitPoll /\ [][NextPoll]_vars /\ WF_vars(PollSteps)

\* --------------------------- addClip and deleteAsset on enumerated timelines

\* addClip(assetId, trackId, start, duration, inPoint, outPoint) of
\* useProject: it throws for an asset the library does not have, and
\* otherwise appends the clip.
addClip(assetId, trackId, start, duration, inPoint, outPoint) ==
  /\ assetId \in tl.assets
  /\ Len(tl.clips) < MaxListed
  /\ tl' = [tl EXCEPT !.clips =
       Append(@, NewClip(FreshClipId(tl.clips), assetId, trackId, start,
                         duration, inPoint, outPoint))]
  /\ UNCHANGED <<keepVars, serverVars, jobs, proj, rend, serve, gifs, poll, sav, det>>

\* The arguments addClip is called with: each of duration, inPoint and
\* outPoint passed or not.
OptionalDurations == {Undefined, 1}
OptionalInPoints == {Undefined, 1}
OptionalOutPoints == {Undefined, 2}

\* The clip lists of the editor before the operation: default clips of any
\* of the assets, which the server has been sent or not.
ListedClips ==
  { [i \in 1..Len(ids) |->
       NewClip(i, ids[i], "V1", 0, Undefined, Undefined, Undefined)] :
    ids \in SeqsUpTo(AssetIds, MaxListed) }

InitLibrary ==
  /\ KeepStart
  /\ JobsStart
  /\ ProjStart
  /\ ServeStart
  /\ GifsStart
  /\ PollStart
  /\ SaveStart
  /\ DetectStart
  /\ RenderStart
  /\ \E clips \in ListedClips, sent \in BOOLEAN :
       tl = [assets |-> AssetIds, clips |-> clips,
             tracks |-> DefaultTracks, settings |-> DefaultSettings,
             serverAssets |-> AssetIds,
             serverClips |-> IF sent THEN clips ELSE << >>,
             drag |-> NoDrag]
  /\ requireDefined = FALSE
  /\ ServerStart

NextLibrary ==
  \/ \E assetId \in AssetIds, duration \in OptionalDurations,
        inPoint \in OptionalInPoints, outPoint \in OptionalOutPoints :
       addClip(assetId, "V2", 0, duration, inPoint, outPoint)
  \/ \E assetId \in AssetIds : deleteAsset(assetId)

SpecLibrary == InitLibrary /\ [][NextLibrary]_vars

\* ------------------------------------- calculateKeepSegments on its inputs

\* Silence periods as detectSilence can report them: start before end, and
\* possibly (for a caller passing a shorter totalDuration) past the end.
SilenceIntervals ==
  { iv \in [start : 0..(MaxT + 1), end : 0..(MaxT + 1)] : iv.start < iv.end }

SilenceLists == SeqsUpTo(SilenceIntervals, MaxSilences)

InitKeep ==
  /\ kpc = "input"
  /\ kSilence \in SilenceLists
  /\ kTotal \in 0..MaxT
  /\ kKeep = << >>
  /\ JobsStart
  /\ ProjStart
  /\ ServeStart
  /\ GifsStart
  /\ PollStart
  /\ SaveStart
  /\ DetectStart
  /\ RenderStart
  /\ TimelineStart
  /\ requireDefined = FALSE
  /\ ServerStart

\* The call calculateKeepSegments(silencePeriods, totalDuration).
CallCalculateKeepSegments ==
  /\ kpc = "input"
  /\ kKeep' = calculateKeepSegments(kSilence, kTotal, MinSegmentDuration)
  /\ kpc' = "done"
  /\ UNCHANGED <<kSilence, kTotal>>
  /\ UNCHANGED <<serverVars, jobs, proj, tl, rend, serve, gifs, poll, sav, det>>

NextKeep == CallCalculateKeepSegments

SpecKeep == InitKeep /\ [][NextKeep]_vars

\* ------------------------------------------- claims on calculateKeepSegments

KeepDone == kpc = "done"

\* The tick [c, c+1) lies in the interval iv.
InInterval(c, iv) == iv.start <= c /\ c < iv.end

\* How many silence periods and keep segments contain the tick c.
CoverCount(c) ==
  Cardinality({ i \in DOMAIN kSilence : InInterval(c, kSilence[i]) }) +
  Cardinality({ j \in DOMAIN kKeep : InInterval(c, kKeep[j]) })

\* The silence list is ordered, non-overlapping and inside [0, totalDuration].
OrderedDisjointInside ==
  /\ \A i \in DOMAIN kSilence :
       0 <= kSilence[i].start /\ kSilence[i].start < kSilence[i].end
                              /\ kSilence[i].end <= kTotal
  /\ \A i \in 1..(Len(kSilence) - 1) : kSilence[i].end <= kSilence[i + 1].start

\* The k-th gap of the silence list: before the first period, between two
\* consecutive periods, or after the last one.
GapStart(k) == IF k = 1 THEN 0 ELSE kSilence[k - 1].end
GapEnd(k) == IF k = Len(kSilence) + 1 THEN kTotal ELSE kSilence[k].start

C2_MinLength ==
  KeepDone => \A j \in DOMAIN kKeep : kKeep[j].end - kKeep[j].start >= MinSegmentDuration

\* C2 (amended): every returned segment has length >= minSegmentDuration,
\* except the single pass-through segment {0, totalDuration} returned for an
\* empty silence list when totalDuration < minSegmentDuration.
C2_MinLengthUnlessPassThrough ==
  (KeepDone /\ ~(Len(kSilence) = 0 /\ kTotal < MinSegmentDuration)) =>
    \A j \in DOMAIN kKeep : kKeep[j].end - kKeep[j].start >= MinSegmentDuration

\* Witness of C2: adjacent or overlapping silence periods with a keep segment
\* returned.
C2_Witness ==
  /\ KeepDone /\ Len(kSilence) = 2 /\ Len(kKeep) >= 1
  /\ kSilence[2].start <= kSilence[1].end

\* The silence list is in chronological order (by start).
Chronological ==
  \A i \in 1..(Len(kSilence) - 1) : kSilence[i].start <= kSilence[i + 1].start

\* C3 (as stated): for any chronologically ordered silence list (overlapping,
\* nested, or reaching past totalDuration) every keep segment lies within
\* [0, totalDuration], the segments are increasing and pairwise disjoint, and
\* no keep segment intersects a silence period.
C3_ClippedComplement ==
  (KeepDone /\ Chronological) =>
    /\ \A j \in DOMAIN kKeep :
         0 <= kKeep[j].start /\ kKeep[j].end <= kTotal
    /\ \A j \in 1..(Len(kKeep) - 1) : kKeep[j].end <= kKeep[j + 1].start
    /\ \A j \in DOMAIN kKeep : \A i \in DOMAIN kSilence :
         kKeep[j].end <= kSilence[i].start \/ kSilence[i].end <= kKeep[j].start

\* C4: for an empty silence list the result is exactly the one segment
\* {start: 0, end: totalDuration}, whatever totalDuration is.
C4_PassThrough ==
  (KeepDone /\ Len(kSilence) = 0) => kKeep = << Interval(0, kTotal) >>

\* Witness of C4: the call has returned for an empty list and a total
\* duration below the minimum segment length.
C4_Witness ==
  KeepDone /\ Len(kSilence) = 0 /\ kTotal < MinSegmentDuration /\ Len(kKeep) = 1

\* --------------------------------------------------- claims on the server

\* The request in slot r has been answered by the given handler.
AnsweredBy(r, handler) == req[r].pc = "done" /\ req[r].handler = handler

\* C5 (as stated): a dead-air removal that detects no silence answers with
\* the original duration both as originalDuration and as the new duration,
\* with removedDuration = 0, and creates no segment, concat list or output.
C5_NoSilenceReply ==
  [][\A r \in Requests :
       (/\ req[r].handler = "handleSessionRemoveDeadAir"
        /\ req[r].pc = "detect"
        /\ req'[r].pc = "done"
        /\ req'[r].response.status = 200)
       => LET body == req'[r].response.body
          IN  /\ HasField(body, "originalDuration")
              /\ Field(body, "originalDuration") = req[r].totalDuration
              /\ HasField(body, "duration")
              /\ Field(body, "duration") = req[r].totalDuration
              /\ HasField(body, "removedDuration")
              /\ Field(body, "removedDuration") = 0
              /\ files' = files]_vars

\* C6 (as stated): once a dead-air removal has been answered, with success or
\* with an error, no segment file and no concat list of that request is left
\* in any session directory.
C6_NoIntermediateLeft ==
  \A r \in Requests :
    AnsweredBy(r, "handleSessionRemoveDeadAir") =>
      \A s \in SessionIds :
        files[s] \cap (AllSegmentPaths(r) \cup {ConcatListOf(r)}) = {}

\* The request in slot r is an in-place edit or a dead-air removal that has
\* started on the working file and has not been answered.
Mutating(r) ==
  /\ req[r].handler \in {"handleSessionProcess", "handleSessionRemoveDeadAir"}
  /\ req[r].pc \in {"ffmpeg", "detect", "segment", "concat", "rename", "stat"}

\* C7 (as stated): no two mutating operations on the working file of the same
\* session are in progress at the same time.
C7_MutationsSerialized ==
  \A r1, r2 \in Requests :
    (r1 # r2 /\ Mutating(r1) /\ Mutating(r2)) => req[r1].id # req[r2].id

\* C8 (as stated): once a session has an uploaded working file, the
\* working-file path exists in every state, also while an edit replaces it.
C8_WorkingFileAlwaysThere ==
  \A s \in sessions \cap uploaded : Current \in files[s]

\* C9 (as stated): after DELETE /session/:id has been answered the id is not
\* in the session table and its directory is gone.
C9_DestroyForgets ==
  \A r \in Requests :
    AnsweredBy(r, "handleSessionDelete") =>
      /\ req[r].response.status = 200
      /\ req[r].id \notin sessions
      /\ req[r].id \notin dirs

\* C10 (as stated): every request for a session (any request but
\* POST /session/create and POST /session/upload themselves) whose id is not
\* in the session table is answered at once with a 404 and changes nothing of
\* any session.
C10_UnknownIdNotFound ==
  [][\A r \in Requests :
       (/\ req[r].pc = "idle"
        /\ req'[r].pc # "idle"
        /\ ~(req'[r].handler \in {"handleSessionCreate", "handleSessionUpload"}
             /\ req'[r].action = "")
        /\ ~getSession(req'[r].id))
       => /\ req'[r].pc = "done"
          /\ req'[r].response.status = 404
          /\ UNCHANGED <<sessions, allocated, age, editCount, dirs, files,
                         content, uploaded>>]_vars

\* C11 (as stated): a run of the sweep destroys every session whose age is
\* past the idle threshold and no younger one; after it no over-age session
\* is in the session table.
C11_SweepDestroysOverAge ==
  [][Sweep =>
       /\ \A s \in sessions :
            IF Older(age[s]) > IdleThreshold
            THEN s \notin sessions' /\ s \notin dirs'
            ELSE s \in sessions' /\ s \in dirs'
       /\ \A s \in sessions' : age'[s] <= IdleThreshold]_vars

\* ------------------------------------------ claims on the temporary files

\* C12 (as stated): every file a handler creates for a session lies inside
\* that session's directory subtree, and no file is written by handlers
\* running for two different sessions.
C12_OwnSubtree ==
  /\ \A j \in 1..MaxJobs :
       jobs[j] # IdleJob => Inside(SessionDir(jobs[j].session), jobs[j].path.dir)
  /\ \A j1, j2 \in 1..MaxJobs :
       (jobs[j1] # IdleJob /\ jobs[j2] # IdleJob /\ jobs[j1].session # jobs[j2].session)
         => jobs[j1].path # jobs[j2].path

\* ---------------------------------------- claims on saving and loading

\* A field of an object; undefined if the object has no such field.
Get(obj, f) == IF f \in DOMAIN obj THEN obj[f] ELSE Undefined
SameObject(a, b, fields) == \A f \in fields : Get(a, f) = Get(b, f)
SameList(a, b, fields) ==
  Len(a) = Len(b) /\ \A i \in 1..Len(a) : SameObject(a[i], b[i], fields)

TrackFields == {"id", "type", "name", "order"}
ClipFields ==
  {"id", "assetId", "trackId", "start", "duration", "inPoint", "outPoint", "transform"}
SettingsFields == {"width", "height", "fps"}

JustResized(c) ==
  /\ tl.drag.mode \in {"resizeLeft", "resizeRight"}
  /\ tl.drag.called
  /\ tl.drag.clipId = c.id

\* C14 (as stated): after any sequence of drops, drags and handle resizes
\* every clip has 0 <= inPoint < outPoint and start >= 0, and right after a
\* resize its duration is outPoint - inPoint.
C14_ClipInvariant ==
  \A i \in 1..Len(tl.clips) :
    LET c == tl.clips[i]
    IN  /\ 0 <= c.inPoint /\ c.inPoint < c.outPoint
        /\ c.start >= 0
        /\ JustResized(c) => c.duration = c.outPoint - c.inPoint

\* C15 (as stated): every resize by a handle leaves the clip at least 0.1 s
\* long and its outPoint no later than the end of its asset, whatever the
\* asset's duration and the distance dragged.
C15_ResizeFloor ==
  \A i \in 1..Len(tl.clips) :
    LET c == tl.clips[i]
    IN  JustResized(c) =>
          /\ c.outPoint - c.inPoint >= MinClipDuration
          /\ c.outPoint <= AssetDuration(c.assetId)

\* C16: deleteAsset removes exactly the clips of the asset, in the editor
\* and in the session's project, and leaves the other clips (fields and
\* order), the other assets, the tracks and the settings as they were.
C16_DeleteAssetFrame ==
  [][\A assetId \in AssetIds :
       deleteAsset(assetId) =>
         /\ tl'.clips = SelectSeq(tl.clips, LAMBDA c : c.assetId # assetId)
         /\ tl'.serverClips = SelectSeq(tl.serverClips, LAMBDA c : c.assetId # assetId)
         /\ tl'.assets = tl.assets \ {assetId}
         /\ tl'.serverAssets = tl.serverAssets \ {assetId}
         /\ tl'.tracks = tl.tracks
         /\ tl'.settings = tl.settings]_vars

\* Witness of C16: the first asset has been deleted and a clip of another
\* asset is still on the timeline, while no clip of the first one is.
C16_Witness ==
  /\ 1 \notin tl.assets
  /\ Len(tl.clips) >= 1
  /\ \A i \in 1..Len(tl.clips) : tl.clips[i].assetId # 1
  /\ \A i \in 1..Len(tl.serverClips) : tl.serverClips[i].assetId # 1

\* C17 (as stated): addClip sets inPoint = 0 and outPoint = asset.duration
\* where they are not passed, uses a duration that is passed as it is, and
\* otherwise sets duration = outPoint - inPoint.
C17_AddClipDefaults ==
  [][\A assetId \in AssetIds, duration \in OptionalDurations,
        inPoint \in OptionalInPoints, outPoint \in OptionalOutPoints :
       addClip(assetId, "V2", 0, duration, inPoint, outPoint) =>
         LET c == tl'.clips[Len(tl'.clips)]
         IN  /\ c.inPoint = (IF inPoint = Undefined THEN 0 ELSE inPoint)
             /\ c.outPoint =
                  (IF outPoint = Undefined THEN AssetDuration(assetId) ELSE outPoint)
             /\ c.duration =
                  (IF duration = Undefined THEN c.outPoint - c.inPoint ELSE duration)]_vars

\* ------------------------------------------------- claims on the render

ClipOfLayer(layer) == ClipOf(rend.clips, layer.clip)

\* C19 (as stated): in the compiled render a video clip is visible at time t
\* only when start <= t < start + (outPoint - inPoint).
C19_VisibleOnlyInWindow ==
  \A i \in 1..Len(rend.layers) : \A t \in FrameTimes :
    LET c == ClipOfLayer(rend.layers[i])
    IN  Visible(i, t) =>
          /\ c.start <= t
          /\ t < c.start + (c.outPoint - c.inPoint)

\* The time-gated overlay scenario: a base clip spanning [0,10) on V1 and
\* an overlay on V2 at start 3 with inPoint 0 and outPoint 2.
OverlayScenario ==
  << [id |-> 1, assetId |-> 1, trackId |-> "V1", start |-> 0, duration |-> 10,
      inPoint |-> 0, outPoint |-> 10, transform |-> NoTransform],
     [id |-> 2, assetId |-> 2, trackId |-> "V2", start |-> 3, duration |-> 2,
      inPoint |-> 0, outPoint |-> 2, transform |-> NoTransform] >>

\* C20 (as stated): in the compiled render of the overlay scenario the base
\* clip is visible at every time of [0,10), also while the overlay is on.
C20_BaseVisibleThroughout ==
  (rend.clips = OverlayScenario /\ rend.response.status = 200) =>
    \A t \in 0..9 :
      \E i \in 1..Len(rend.layers) : rend.layers[i].clip = 1 /\ Visible(i, t)

\* ------------------------------------------- claims on the filter graph

\* handleProjectRender has handed a graph to ffmpeg.
Compiled == rend.pc \in {"encoding", "done"} /\ rend.encoders > 0

\* The order field of the tracks of the project: the default V1, V2, A1 and
\* two more video tracks.
OrderOfTrack(trackId) ==
  CASE trackId = "V1" -> 0 [] trackId = "V2" -> 1 [] trackId = "A1" -> 2
    [] trackId = "V3" -> 3 [] OTHER -> 4

\* The stages of a graph that run the given filter.
StagesOf(graph, filter) == SelectSeq(graph.stages, LAMBDA st : st.filter = filter)

\* C21 (as stated): the overlays form one chain from the background, each
\* on the output of the one before; a clip on a video track of lower order is
\* overlaid before a clip on a track of higher order, V3 and later tracks
\* included, and clips of one track are overlaid in clip-list order.
C21_OverlayChainInTrackOrder ==
  Compiled =>
    LET overlays == StagesOf(rend.graph, "overlay")
        trackOf(st) == ClipOf(rend.clips, st.clip).trackId
    IN  /\ \A k \in 1..Len(overlays) :
             overlays[k].ins[1] =
               IF k = 1 THEN Label("base", 0) ELSE overlays[k - 1].out
        /\ \A j \in 1..Len(overlays), k \in 1..Len(overlays) :
             /\ OrderOfTrack(trackOf(overlays[j])) < OrderOfTrack(trackOf(overlays[k]))
                  => j < k
             /\ (trackOf(overlays[j]) = trackOf(overlays[k])
                   /\ overlays[j].clip < overlays[k].clip) => j < k

\* The stages of the graph that name the stream.
Producers(graph, label) ==
  { i \in 1..Len(graph.stages) : graph.stages[i].out = label }

\* Every stream a stage or a -map reads is an input pad that exists or is
\* named by exactly one stage, and no two stages name the same stream.
Wired(graph) ==
  /\ \A i \in 1..Len(graph.stages) :
       /\ Producers(graph, graph.stages[i].out) = {i}
       /\ \A n \in 1..Len(graph.stages[i].ins) :
            LET label == graph.stages[i].ins[n]
            IN  IF IsPad(label) THEN label[2] < Len(graph.inputs)
                ELSE Cardinality(Producers(graph, label)) = 1
  /\ \A n \in 1..Len(graph.maps) :
       Cardinality(Producers(graph, graph.maps[n])) = 1

\* C22 (as stated): in every compiled graph the stream names are pairwise
\* distinct and every stream read by an overlay, by the audio mix or by an
\* output mapping is named by exactly one stage of the graph.
C22_StreamsNamedOnce == Compiled => Wired(rend.graph)

\* The clip's asset is in the asset table.
HasAsset(c) == c.assetId \in DOMAIN RenderAssets

\* How many stages of the graph were pushed for the clip.
StagesFor(graph, c, filter) ==
  Len(SelectSeq(graph.stages, LAMBDA st : st.filter = filter /\ st.clip = c.id))

\* C23 (as stated): clips whose asset is gone do not make the render fail:
\* the graph has one input, and one trim and overlay stage or one audio
\* stage, for every clip whose asset exists, nothing for the others, and is
\* well formed whenever the graph of the remaining clips is.
C23_MissingAssetsSkipped ==
  Compiled =>
    LET present == SelectSeq(rend.clips, HasAsset)
        audio(c) == HasAsset(c) /\ RenderAssets[c.assetId].type = "audio"
    IN  /\ Len(rend.graph.inputs) = Len(present)
        /\ \A i \in 1..Len(rend.clips) :
             LET c == rend.clips[i]
             IN  /\ StagesFor(rend.graph, c, "trim") =
                      (IF HasAsset(c) /\ ~audio(c) THEN 1 ELSE 0)
                 /\ StagesFor(rend.graph, c, "overlay") =
                      (IF HasAsset(c) /\ ~audio(c) THEN 1 ELSE 0)
                 /\ StagesFor(rend.graph, c, "atrim") = (IF audio(c) THEN 1 ELSE 0)
        /\ Wired(CompileGraph(present)) => Wired(rend.graph)

\* C24 (as stated): for a video clip whose transform has an opacity below 1
\* the graph has a stage that applies that opacity to the clip.
C24_OpacityApplied ==
  Compiled =>
    \A i \in 1..Len(rend.clips) :
      LET c == rend.clips[i]
      IN  (HasAsset(c) /\ RenderAssets[c.assetId].type # "audio"
             /\ c.transform.opacity # Undefined /\ c.transform.opacity < 100)
            => \E n \in 1..Len(rend.graph.stages) :
                 /\ rend.graph.stages[n].clip = c.id
                 /\ rend.graph.stages[n].opacity = c.transform.opacity

\* Where the overlay filter puts the left (top) edge of a picture of the
\* given size on a canvas of the given size.
EdgeAt(position, canvas, size) ==
  IF position.anchor = "centre" THEN (canvas - size) \div 2 + position.offset
  ELSE position.offset

\* C25 (as stated): a clip is overlaid at the centred position displaced by
\* transform.x pixels horizontally and transform.y pixels vertically, with
\* no displacement where the transform has none.
C25_OffsetsFromCentre ==
  Compiled =>
    \A n \in 1..Len(rend.graph.stages) :
      LET st == rend.graph.stages[n]
          c == ClipOf(rend.clips, st.clip)
          percent == Default(c.transform.scale, 100)
          w == (DefaultSettings.width * percent) \div 100
          h == (DefaultSettings.height * percent) \div 100
      IN  st.filter = "overlay" =>
            /\ EdgeAt(st.x, DefaultSettings.width, w) =
                 (DefaultSettings.width - w) \div 2 + Default(c.transform.x, 0)
            /\ EdgeAt(st.y, DefaultSettings.height, h) =
                 (DefaultSettings.height - h) \div 2 + Default(c.transform.y, 0)

\* C26 (as stated): the mixed audio stream is mapped exactly when a clip
\* references an audio asset, and then the mix reads one stream per audio
\* clip, each the clip's audio trimmed to its in/out window and delayed by
\* floor(start * 1000) ms.
C26_AudioMixOfAudioClips ==
  Compiled =>
    LET audioClips == audioClipsOf(rend.clips)
        mixes == StagesOf(rend.graph, "amix")
        mapped == \E n \in 1..Len(rend.graph.maps) :
                    rend.graph.maps[n] = Label("aout", 0)
    IN  /\ mapped <=> Len(audioClips) > 0
        /\ mapped =>
             /\ Len(mixes) = 1
             /\ Len(mixes[1].ins) = Len(audioClips)
             /\ \A i \in 1..Len(audioClips) :
                  \E n \in 1..Len(rend.graph.stages) :
                    LET st == rend.graph.stages[n]
                    IN  /\ st.filter = "atrim"
                        /\ st.clip = audioClips[i].id
                        /\ st.out = mixes[1].ins[i]
                        /\ st.from = audioClips[i].inPoint
                        /\ st.to = audioClips[i].outPoint
                        /\ st.delay = audioClips[i].start * 1000

\* ------------------------------------------ claims on failures and replies

\* C27 (as stated): when ffmpeg fails in an in-place edit, the request is
\* answered with an error, the working file and editCount of the session are
\* as before, and no output or temporary file of the request is left in the
\* session directory.
C27_FailedEditLeavesNothing ==
  [][\A r \in Requests :
       (ProcessFfmpegExit(r) /\ req'[r].response.error = "FFmpeg failed") =>
         LET s == req[r].id
         IN  /\ req'[r].response.status >= 400
             /\ editCount' = editCount
             /\ content' = content
             /\ (Current \in files'[s]) <=> (Current \in files[s])
             /\ OutputOf(r) \notin files'[s]]_vars

\* C30: pollForResult makes at most maxAttempts status checks and always
\* ends: it returns on a check that reports completion, and rejects with the
\* timeout error once maxAttempts checks have reported anything else.
C30_PollTerminates ==
  /\ [](poll.checks <= poll.maxAttempts)
  /\ [](poll.pc = "returned" => poll.error = "")
  /\ [](poll.pc = "rejected" =>
          /\ poll.error = "Request timed out after 60 seconds"
          /\ poll.checks = poll.maxAttempts)
  /\ (poll.pc # "idle") ~> (poll.pc \in {"returned", "rejected"})

\* Witness of C30: sixty status checks were made, none reported completion,
\* and the call has rejected with the timeout error.
C30_Witness ==
  /\ poll.pc = "rejected"
  /\ poll.maxAttempts = DefaultMaxAttempts
  /\ poll.checks = DefaultMaxAttempts
  /\ poll.error = "Request timed out after 60 seconds"

\* The keywords among the first n whose GIF was found and saved.
RECURSIVE SavedAmong(_)
SavedAmong(n) ==
  IF n = 0 THEN << >>
  ELSE IF gifs.keywords[n] = "saved" THEN Append(SavedAmong(n - 1), n)
       ELSE SavedAmong(n - 1)

\* C29: a failure for one keyword does not end the batch: the loop goes
\* through every keyword, the reply is the 200 with exactly one gifAssets
\* entry per keyword whose GIF was found and saved, and session.assets gains
\* an asset for exactly those keywords.
C29_GifFailureSkipsOneKeyword ==
  /\ gifs.pc = "loop" =>
       /\ gifs.gifAssets = SavedAmong(gifs.i - 1)
       /\ gifs.assets = { gifs.gifAssets[k] : k \in 1..Len(gifs.gifAssets) }
  /\ (gifs.pc = "done" /\ gifs.keywords # << >>) =>
       /\ gifs.status = 200
       /\ gifs.i = Len(gifs.keywords) + 1
       /\ gifs.gifAssets = SavedAmong(Len(gifs.keywords))
       /\ gifs.assets = { n \in 1..Len(gifs.keywords) : gifs.keywords[n] = "saved" }
       /\ gifs.assetFiles = gifs.assets

\* Witness of C29: of three keywords the second failed in the download, and
\* the reply carries the two others.
C29_Witness ==
  /\ gifs.pc = "done"
  /\ gifs.status = 200
  /\ gifs.keywords = << "saved", "downloadFails", "saved" >>
  /\ gifs.gifAssets = << 1, 3 >>
  /\ gifs.assets = {1, 3}

\* C28 (as stated): every request to a session endpoint is answered in the
\* end, exactly once, with a success or with an error payload and a status
\* that is not 2xx, also when the file system fails while a thumbnail, an
\* asset or a render is served.
C28_EveryRequestAnswered ==
  \A n \in 1..MaxServe :
    /\ [](serve[n].ended <= 1)
    /\ [](serve[n].pc = "done" =>
            \/ serve[n].status = 200 /\ serve[n].error = ""
            \/ serve[n].status >= 400 /\ serve[n].error # "")
    /\ (serve[n].pc # "idle") ~> (serve[n].pc = "done" /\ serve[n].ended = 1)

\* The project the editor shows, as JSON.
ClientProject ==
  JsonifyProject([tracks |-> tl.tracks, clips |-> tl.clips, settings |-> tl.settings])

\* C31 (as stated): when every edit is followed by saveProject and the timer
\* of the last call has fired, the project stored on the server has the
\* tracks, clips and settings the editor shows, the clip of the last edit
\* included.
C31_SavedProjectIsLatest ==
  (proj.pc = "saved" /\ ~sav.armed) => proj.project = ClientProject

\* C32 (as stated): with the sweep scheduled fairly, every session of the
\* table is removed from it in the end, whether or not a client deletes it.
C32_SessionsSweptEventually ==
  \A s \in SessionIds : (s \in sessions) ~> (s \notin sessions)

\* The end marker at line j yields an interval: a start marker precedes it
\* with no interval yielded in between.
RECURSIVE Emits(_, _)
Emits(lines, j) ==
  /\ lines[j].marker = "silence_end"
  /\ \E i \in 1..(j - 1) :
       /\ lines[i].marker = "silence_start"
       /\ \A k \in (i + 1)..(j - 1) : ~Emits(lines, k)

\* The interval of the end marker at line j: from the most recent start.
IntervalAt(lines, j) ==
  LET i == CHOOSE i \in 1..(j - 1) :
             /\ lines[i].marker = "silence_start"
             /\ \A k \in (i + 1)..(j - 1) : lines[k].marker # "silence_start"
  IN  [start |-> lines[i].time, end |-> lines[j].time]

RECURSIVE PairedUpTo(_, _)
PairedUpTo(lines, n) ==
  IF n = 0 THEN << >>
  ELSE IF Emits(lines, n) THEN Append(PairedUpTo(lines, n - 1), IntervalAt(lines, n))
  ELSE PairedUpTo(lines, n - 1)

\* C33 (as stated): for any sequence of silence_start and silence_end lines
\* detectSilence returns, in order, one interval for each end marker with a
\* pending start, paired with the most recent start since the interval
\* before; unpaired starts and ends yield nothing.
C33_MarkersPaired ==
  det.pc = "done" => det.silences = PairedUpTo(det.lines, Len(det.lines))

\* The same, for outputs in which no time is printed with a minus sign.
PairedWhenUnsigned ==
  (det.pc = "done" /\ \A i \in 1..Len(det.lines) : det.lines[i].time >= 0)
    => det.silences = PairedUpTo(det.lines, Len(det.lines))

\* The requests on session s that this step answers as edits that were made:
\* a 200 of handleSessionProcess, or a 200 of handleSessionRemoveDeadAir that
\* comes after the working file was replaced (the no-silence reply comes
\* straight from the detection).
EditsCompleted(s) ==
  { r \in Requests :
      /\ req[r].id = s
      /\ req[r].pc # "done"
      /\ req'[r].pc = "done"
      /\ req'[r].response.status = 200
      /\ \/ req[r].handler = "handleSessionProcess"
         \/ req[r].handler = "handleSessionRemoveDeadAir" /\ req[r].pc # "detect" }

\* C34: in every step, whatever the requests in progress, the editCount of
\* each session grows by the number of edits of that session the step
\* completes with success, and an edit so completed reports the new count;
\* failed edits, no-silence dead-air requests and every other request leave
\* it as it is.  (The count is 0 at creation, so it is always the number of
\* edits completed.)
C34_EditCountCountsEdits ==
  [][\A s \in SessionIds :
       /\ editCount'[s] = editCount[s] + Cardinality(EditsCompleted(s))
       /\ \A r \in EditsCompleted(s) :
            /\ HasField(req'[r].response.body, "editCount")
            /\ Field(req'[r].response.body, "editCount") = editCount'[s]]_vars

\* A dead-air removal that cut the file has been answered and the session
\* counts one edit.
C34_Witness ==
  \E r \in Requests :
    /\ AnsweredBy(r, "handleSessionRemoveDeadAir")
    /\ req[r].response.status = 200
    /\ HasField(req[r].response.body, "editCount")
    /\ editCount[req[r].id] = 1

\* The session s was created and has been removed from the table.
Destroyed(s) == s \in allocated /\ s \notin sessions

C36_ErrorStatusRejects ==
  [][StatusCheck("error") =>
       (poll'.pc = "rejected" /\ poll'.error = "Processing failed")]_vars

\* The end of the clip on the timeline.
EndOnTimeline(start, inPoint, outPoint) == start + (outPoint - inPoint)

\* C37 (as stated): a resize by the left handle leaves the end of the clip on
\* the timeline, start + (outPoint - inPoint), where it was when the gesture
\* began, for any distance dragged, also when the new start would be negative
\* and is clamped to 0.
C37_LeftResizeKeepsEnd ==
  \A i \in 1..Len(tl.clips) :
    LET c == tl.clips[i]
    IN  (JustResized(c) /\ tl.drag.mode = "resizeLeft")
          => EndOnTimeline(c.start, c.inPoint, c.outPoint)
               = EndOnTimeline(tl.drag.initialStart, tl.drag.initialInPoint, c.outPoint)

\* The same for the resizes whose new start, initialStart + inPointDelta, is
\* not negative.
LeftResizeKeepsEndUnclamped ==
  \A i \in 1..Len(tl.clips) :
    LET c == tl.clips[i]
    IN  (/\ JustResized(c) /\ tl.drag.mode = "resizeLeft"
         /\ tl.drag.initialStart + (c.inPoint - tl.drag.initialInPoint) >= 0)
          => EndOnTimeline(c.start, c.inPoint, c.outPoint)
               = EndOnTimeline(tl.drag.initialStart, tl.drag.initialInPoint, c.outPoint)

\* C38 (as stated): for every video clip rendered, the window in which the
\* compiler enables it ends no later than the total duration computed for the
\* output, start + (outPoint - inPoint) <= totalDuration, for any stored
\* clip, those whose duration was overridden at creation included.
C38_WindowWithinTotal ==
  \A i \in 1..Len(rend.layers) :
    LET c == ClipOfLayer(rend.layers[i])
    IN  /\ rend.layers[i].enableTo = c.start + (c.outPoint - c.inPoint)
        /\ rend.layers[i].enableTo <= rend.totalDuration

\* The same for the timelines on which every clip has the duration
\* outPoint - inPoint.
WindowWithinTotalOfTrimmed ==
  (\A k \in 1..Len(rend.clips) :
      rend.clips[k].duration = rend.clips[k].outPoint - rend.clips[k].inPoint)
    => \A i \in 1..Len(rend.layers) : rend.layers[i].enableTo <= rend.totalDuration

\* The clip is a layer of the editor's preview with the playhead at t.
InPreview(c, t) ==
  LET layers == getPreviewLayers(rend.clips, t)
  IN  \E i \in 1..Len(layers) : layers[i].id = c.id

\* The overlay compiled for the clip is enabled at time t of the render.
EnabledInRender(c, t) ==
  \E i \in 1..Len(rend.layers) :
    /\ rend.layers[i].clip = c.id
    /\ between(t, rend.layers[i].enableFrom, rend.layers[i].enableTo)

\* The clips the comparison is about: on V1, V2 or V3, with an asset that is
\* there and is not audio.
OnVideoTrack(c) ==
  /\ c.trackId \in {"V1", "V2", "V3"}
  /\ c.assetId \in DOMAIN RenderAssets
  /\ RenderAssets[c.assetId].type # "audio"

\* C39 (as stated): for every timeline and every time t of its render, a clip
\* on a video track with an existing non-audio asset is a layer of the
\* editor's preview at playhead t if and only if its overlay is enabled at
\* time t in the compiled render of the same timeline.
C39_PreviewMatchesRender ==
  \A k \in 1..Len(rend.clips) : \A t \in FrameTimes :
    OnVideoTrack(rend.clips[k]) =>
      (InPreview(rend.clips[k], t) <=> EnabledInRender(rend.clips[k], t))

\* The same away from the last instant of the window, on timelines whose
\* clips all have the duration outPoint - inPoint.
PreviewMatchesRenderInside ==
  (\A k \in 1..Len(rend.clips) :
      rend.clips[k].duration = rend.clips[k].outPoint - rend.clips[k].inPoint)
    => \A k \in 1..Len(rend.clips) : \A t \in FrameTimes :
         (OnVideoTrack(rend.clips[k]) /\ t # rend.clips[k].start + rend.clips[k].duration)
           => (InPreview(rend.clips[k], t) <=> EnabledInRender(rend.clips[k], t))

====
